---- MODULE Spec2Model ----
(***************************************************************************)
(* A model of highnoon's request routing and filter dispatch:              *)
(*   Router  (src/src/router.rs)   per-method tries plus the "all" trie    *)
(*   Next    (src/src/filter.rs)   the single-use cursor over the filters  *)
(*   App     (src/src/app.rs)      registration, dispatch, mounted apps    *)
(*   Request (src/src/request.rs)  the parameter set carried by a request  *)
(*   Session (src/src/filter/session.rs)  the session filter and its store *)
(*                                                                         *)
(* Strings.  A string is [lead, segs]: the segments between its slashes    *)
(* and whether it starts with a slash.  "/user/bob" is                     *)
(* [lead |-> TRUE, segs |-> <<"user","bob">>], "bob" is                    *)
(* [lead |-> FALSE, segs |-> <<"bob">>], "/" is [TRUE, <<"">>] and         *)
(* "/a/" is [TRUE, <<"a","">>].                                            *)
(*                                                                         *)
(* Patterns.  A route pattern is the sequence of its segments, each a      *)
(* literal, a `:name` parameter or a `*name` catch-all.                    *)
(***************************************************************************)
EXTENDS Integers, Sequences, FiniteSets, TLC

VARIABLES
    apps,     \* App.routes and App.filters of every App (app.rs:25-29)
    phase,    \* "setup" while routes are registered, "serving" once the App is
              \* behind an Arc, "panicked" after a failed registration
    req,      \* per connection: the Request in flight (request.rs:15-21)
    stack,    \* per connection: the pending calls (Next::next, Filter::apply,
              \* MountedApp::call), innermost last
    ret,      \* per connection: the Result<Response> being returned, or NoResult
    sent,     \* per connection: the response handed to the transport
    trace,    \* per connection: what the request has met so far, in order
    withCalls,\* per App: the filters handed to App::with, in call order
    rejected, \* the registration whose insert failed (the `expect` of
              \* router.rs:47 or router.rs:51 panicked), or NoReg
    lock,     \* SessionFilter.store, the AsyncMutex (session.rs:74): the
              \* connection whose task holds its guard, or 0
    spc,      \* per connection: where its task is in SessionFilter::apply
              \* (session.rs:193-244), "" outside of the lock and the store
    store,    \* MemorySessionStore.data (session.rs:32-34): session id to
              \* the text stored for it
    sid       \* per connection: the local `sid` of SessionFilter::apply
              \* (session.rs:201-212), NoSid outside of it

vars == <<apps, phase, req, stack, ret, sent, trace, withCalls, rejected, lock, spc,
          store, sid>>

-----------------------------------------------------------------------------
(* Bounds of the model *)

MaxRoutes  == 3      \* routes registered on one App
MaxFilters == 2      \* filters registered on one App
NReq       == 2      \* connections the transport can have open
MaxParts   == 3      \* path segments after the prefix of a static route
MaxSessions == 1     \* sessions started for requests without a session cookie

Reqs == 1 .. NReq

-----------------------------------------------------------------------------
(* Strings and patterns *)

Path(segs) == [lead |-> TRUE,  segs |-> segs]
Word(seg)  == [lead |-> FALSE, segs |-> <<seg>>]

Lit(s)   == [k |-> "lit",   v |-> s]
Param(n) == [k |-> "param", v |-> n]
Catch(n) == [k |-> "catch", v |-> n]

\* the catch-all name a mount registers (app.rs:90, app.rs:208)
REST == "-highnoon-path-rest-"

Methods == {"GET", "POST", "DELETE"}

NoParams == [n \in {} |-> Word("")]

\* request::Params is a map: insert replaces the value of a key it has
ParamsInsert(params, k, v) ==
    [n \in (DOMAIN params) \cup {k} |-> IF n = k THEN v ELSE params[n]]

SubSeqFrom(s, i) == SubSeq(s, i, Len(s))

-----------------------------------------------------------------------------
(* The matcher: matchit::Node<Box<DynEndpoint>> (router.rs:10).  A node is  *)
(* the set of its entries [pat, value]; the trie's descent is AtFrom.       *)

NoMatch == [ok |-> FALSE]

\* a catch-all that captures the rest of the path after the slash
CatchValue_no_slash(segs, i) == [lead |-> FALSE, segs |-> SubSeqFrom(segs, i)]

\* the part of the path a catch-all at position i captures: the rest of the
\* path from the slash before segment i on
CatchValue(segs, i) == Path(SubSeqFrom(segs, i))

\* the text a `:name` segment captures
ParamValue(seg) == Word(seg)

\* a descent that tries the `:name` child of a node before its literal
\* children
RECURSIVE AtFrom_param_first(_, _, _, _)
AtFrom_param_first(node, segs, i, params) ==
    IF i > Len(segs)
    THEN LET here == {e \in node : Len(e.pat) = i - 1}
         IN  IF here = {} THEN NoMatch
             ELSE [ok |-> TRUE, value |-> (CHOOSE e \in here : TRUE).value,
                   params |-> params]
    ELSE LET seg  == segs[i]
             sub  == {e \in node : Len(e.pat) >= i}
             lits == {e \in sub : e.pat[i] = Lit(seg)}
             pars == {e \in sub : e.pat[i].k = "param"}
             cats == {e \in sub : e.pat[i].k = "catch" /\ Len(e.pat) = i}
             viaLit == IF lits = {} THEN NoMatch
                       ELSE AtFrom_param_first(lits, segs, i + 1, params)
             viaPar == IF pars = {} \/ seg = "" THEN NoMatch
                       ELSE AtFrom_param_first(pars, segs, i + 1,
                                ParamsInsert(params,
                                    (CHOOSE e \in pars : TRUE).pat[i].v,
                                    ParamValue(seg)))
             viaCat == IF cats = {} THEN NoMatch
                       ELSE LET e == CHOOSE e \in cats : TRUE
                            IN  [ok |-> TRUE, value |-> e.value,
                                 params |-> ParamsInsert(params, e.pat[i].v,
                                                CatchValue(segs, i))]
         IN  IF viaPar.ok THEN viaPar
             ELSE IF viaLit.ok THEN viaLit
             ELSE viaCat

RECURSIVE AtFrom(_, _, _, _)
AtFrom(node, segs, i, params) ==
    IF i > Len(segs)
    THEN LET here == {e \in node : Len(e.pat) = i - 1}
         IN  IF here = {} THEN NoMatch
             ELSE [ok |-> TRUE, value |-> (CHOOSE e \in here : TRUE).value,
                   params |-> params]
    ELSE LET seg  == segs[i]
             sub  == {e \in node : Len(e.pat) >= i}
             lits == {e \in sub : e.pat[i] = Lit(seg)}
             pars == {e \in sub : e.pat[i].k = "param"}
             cats == {e \in sub : e.pat[i].k = "catch" /\ Len(e.pat) = i}
             viaLit == IF lits = {} THEN NoMatch
                       ELSE AtFrom(lits, segs, i + 1, params)
             viaPar == IF pars = {} \/ seg = "" THEN NoMatch
                       ELSE AtFrom(pars, segs, i + 1,
                                ParamsInsert(params,
                                    (CHOOSE e \in pars : TRUE).pat[i].v,
                                    ParamValue(seg)))
             viaCat == IF cats = {} THEN NoMatch
                       ELSE LET e == CHOOSE e \in cats : TRUE
                            IN  [ok |-> TRUE, value |-> e.value,
                                 params |-> ParamsInsert(params, e.pat[i].v,
                                                CatchValue(segs, i))]
         IN  IF viaLit.ok THEN viaLit
             ELSE IF viaPar.ok THEN viaPar
             ELSE viaCat

\* Node::at(path): every route starts with a slash, so a path that does not
\* matches nothing
At(node, path) ==
    IF path.lead THEN AtFrom(node, path.segs, 1, NoParams) ELSE NoMatch

\* a matcher that takes a wildcard without a name
WellFormed_unnamed(pat) ==
    /\ Len(pat) >= 1
    /\ \A i \in 1 .. Len(pat) : pat[i].k = "catch" => i = Len(pat)

\* Is `pat` a pattern the matcher takes: a catch-all only as the last
\* segment, and every wildcard with a name
WellFormed(pat) ==
    /\ Len(pat) >= 1
    /\ \A i \in 1 .. Len(pat) : pat[i].k = "catch" => i = Len(pat)
    /\ \A i \in 1 .. Len(pat) : pat[i].k # "lit" => pat[i].v # ""

\* two patterns that share a prefix and then put different wildcards in the
\* same position
WildcardConflict(p, q) ==
    \E i \in 1 .. Len(p) :
        /\ i <= Len(q)
        /\ SubSeq(p, 1, i - 1) = SubSeq(q, 1, i - 1)
        /\ p[i].k # "lit" /\ q[i].k # "lit"
        /\ p[i] # q[i]

\* Node::insert(route, value) returns Ok exactly when
InsertOk(node, pat) ==
    /\ WellFormed(pat)
    /\ \A e \in node : e.pat # pat /\ ~WildcardConflict(e.pat, pat)

Insert(node, pat, value) == node \cup {[pat |-> pat, value |-> value]}

-----------------------------------------------------------------------------
(* Endpoints, responses and results *)

Ep(kind, id, arg) == [kind |-> kind, id |-> id, arg |-> arg]
\* no endpoint
NoEp == Ep("", <<>>, "")

\* the two synthetic endpoints of the router (router.rs:92-98)
method_not_allowed == Ep("method_not_allowed", <<>>, "")
not_found          == Ep("not_found", <<>>, "")

Response(status, body) == [status |-> status, body |-> body]

\* Body::empty()
EmptyBody == <<>>

NoResult     == [kind |-> "None",     resp |-> Response(0, EmptyBody)]
Ok(resp)     == [kind |-> "Ok",       resp |-> resp]
ErrHttp(resp) == [kind |-> "Http",    resp |-> resp]
ErrInternal  == [kind |-> "Internal", resp |-> Response(0, EmptyBody)]
\* a panic of the task that serves the connection
Panic        == [kind |-> "Panic",    resp |-> Response(0, EmptyBody)]
\* the Err the service future gives the transport (app.rs:183)
StdError     == [kind |-> "StdError", resp |-> Response(0, EmptyBody)]
NoResponse   == Response(0, EmptyBody)

-----------------------------------------------------------------------------
(* Router (router.rs:12-90) *)

RouterNew == [methods |-> [m \in Methods |-> {}], all |-> {}]

RouteTarget(ep, params) == [ep |-> ep, params |-> params]

\* copy_params: an owned copy of every (key, value) pair the match borrowed
copy_params(params) == [k \in DOMAIN params |-> params[k]]

\* add that puts the endpoint in the place of the one registered before
add_overwrite(router, method, path, ep) ==
    [ok |-> TRUE,
     router |-> [router EXCEPT !.methods[method] =
                    Insert({e \in @ : e.pat # path}, path, ep)]]

\* add that does not look at what insert returned
add_unchecked(router, method, path, ep) ==
    [ok |-> TRUE,
     router |-> [router EXCEPT !.methods[method] = Insert(@, path, ep)]]

\* Router::add and Router::add_all: a matcher that refuses the route makes
\* `expect` panic
add(router, method, path, ep) ==
    IF InsertOk(router.methods[method], path)
    THEN [ok |-> TRUE,
          router |-> [router EXCEPT !.methods[method] = Insert(@, path, ep)]]
    ELSE [ok |-> FALSE, router |-> router]

add_all(router, path, ep) ==
    IF InsertOk(router.all, path)
    THEN [ok |-> TRUE, router |-> [router EXCEPT !.all = Insert(@, path, ep)]]
    ELSE [ok |-> FALSE, router |-> router]

\* lookup with the all-trie asked before the method's own trie
lookup_all_first(router, method, path) ==
    LET own == At(router.methods[method], path)
        any == At(router.all, path)
    IN  IF any.ok THEN RouteTarget(any.value, copy_params(any.params))
        ELSE IF own.ok THEN RouteTarget(own.value, copy_params(own.params))
        ELSE IF \E k \in Methods \ {method} : At(router.methods[k], path).ok
             THEN RouteTarget(method_not_allowed, NoParams)
        ELSE RouteTarget(not_found, NoParams)

\* lookup that forgets the captures of an all-trie match
lookup_all_no_params(router, method, path) ==
    LET own == At(router.methods[method], path)
        any == At(router.all, path)
    IN  IF own.ok THEN RouteTarget(own.value, copy_params(own.params))
        ELSE IF any.ok THEN RouteTarget(any.value, NoParams)
        ELSE IF \E k \in Methods \ {method} : At(router.methods[k], path).ok
             THEN RouteTarget(method_not_allowed, NoParams)
        ELSE RouteTarget(not_found, NoParams)

\* lookup without the scan of the other methods
lookup_no_405(router, method, path) ==
    LET own == At(router.methods[method], path)
        any == At(router.all, path)
    IN  IF own.ok THEN RouteTarget(own.value, copy_params(own.params))
        ELSE IF any.ok THEN RouteTarget(any.value, copy_params(any.params))
        ELSE RouteTarget(not_found, NoParams)

\* lookup whose scan of the other methods tests is_err instead of is_ok
lookup_scan_inverted(router, method, path) ==
    LET own == At(router.methods[method], path)
        any == At(router.all, path)
    IN  IF own.ok THEN RouteTarget(own.value, copy_params(own.params))
        ELSE IF any.ok THEN RouteTarget(any.value, copy_params(any.params))
        ELSE IF \E k \in Methods \ {method} :
                    router.methods[k] # {} /\ ~At(router.methods[k], path).ok
             THEN RouteTarget(method_not_allowed, NoParams)
        ELSE RouteTarget(not_found, NoParams)

\* lookup with the scan of the other methods before the all-trie
lookup_405_before_all(router, method, path) ==
    LET own == At(router.methods[method], path)
        any == At(router.all, path)
    IN  IF own.ok THEN RouteTarget(own.value, copy_params(own.params))
        ELSE IF \E k \in Methods \ {method} : At(router.methods[k], path).ok
             THEN RouteTarget(method_not_allowed, NoParams)
        ELSE IF any.ok THEN RouteTarget(any.value, copy_params(any.params))
        ELSE RouteTarget(not_found, NoParams)

lookup(router, method, path) ==
    LET own == At(router.methods[method], path)
        any == At(router.all, path)
    IN  IF own.ok THEN RouteTarget(own.value, copy_params(own.params))
        ELSE IF any.ok THEN RouteTarget(any.value, copy_params(any.params))
        ELSE IF \E k \in Methods \ {method} : At(router.methods[k], path).ok
             THEN RouteTarget(method_not_allowed, NoParams)
        ELSE RouteTarget(not_found, NoParams)

-----------------------------------------------------------------------------
(* App (app.rs:25-129) *)

AppIds == {"root", "api", "inner"}

\* the App that listen / test is called on
Root == "root"

AppNew == [routes |-> RouterNew, filters |-> <<>>]

Entries(a) ==
    apps[a].routes.all \cup UNION {apps[a].routes.methods[m] : m \in Methods}

\* the number of routes of App a (every entry holds an endpoint of its own)
RouteCount(a) == Cardinality(Entries(a))

\* an App that `mount` took by value belongs to its parent from then on
Mounted(a) ==
    \E b \in AppIds : \E e \in Entries(b) :
        e.value.kind = "mount" /\ e.value.arg = a

\* the endpoints a route can be given; every registration boxes an endpoint
\* of its own, known here by the place it is registered at
Handler(a, table, pat, body) == Ep("handler", <<a, table, pat>>, body)
MountedApp(a, pat, child) == Ep("mount", <<a, "ALL", pat>>, child)

\* a registration: the App, the trie ("ALL" or a method), the pattern and the
\* endpoint handed to Router::add / Router::add_all
Reg(a, table, pat, ep) == [app |-> a, table |-> table, pat |-> pat, ep |-> ep]
NoReg == Reg("", "", <<>>, NoEp)

\* Route::method (app.rs:38-41)
RouteMethod(a, m, pat, body) ==
    /\ phase = "setup"
    /\ ~Mounted(a)
    /\ RouteCount(a) < MaxRoutes
    /\ LET res == add(apps[a].routes, m, pat, Handler(a, m, pat, body))
       IN  /\ apps' = [apps EXCEPT ![a].routes = res.router]
           /\ phase' = IF res.ok THEN phase ELSE "panicked"
           /\ rejected' = IF res.ok THEN rejected
                          ELSE Reg(a, m, pat, Handler(a, m, pat, body))
    /\ UNCHANGED <<req, stack, ret, sent, trace, withCalls, lock, spc, store, sid>>

\* Route::all (app.rs:45-48)
RouteAll(a, pat, body) ==
    /\ phase = "setup"
    /\ ~Mounted(a)
    /\ RouteCount(a) < MaxRoutes
    /\ LET res == add_all(apps[a].routes, pat, Handler(a, "ALL", pat, body))
       IN  /\ apps' = [apps EXCEPT ![a].routes = res.router]
           /\ phase' = IF res.ok THEN phase ELSE "panicked"
           /\ rejected' = IF res.ok THEN rejected
                          ELSE Reg(a, "ALL", pat, Handler(a, "ALL", pat, body))
    /\ UNCHANGED <<req, stack, ret, sent, trace, withCalls, lock, spc, store, sid>>

\* a mount path whose catch-all has another name than the one the adapter
\* reads
MountPath_other_name(pat) == Append(pat, Catch("rest"))

\* Route::mount (app.rs:86-93): the child is registered for all methods at
\* the route's path followed by the reserved catch-all
MountPath(pat) == Append(pat, Catch(REST))

\* a mount that registers the child under GET only
RouteMount_get_only(a, pat, child) ==
    /\ phase = "setup"
    /\ a # child /\ child # Root
    /\ ~Mounted(a) /\ ~Mounted(child)
    /\ RouteCount(a) < MaxRoutes
    /\ LET res == add(apps[a].routes, "GET", MountPath(pat),
                      MountedApp(a, MountPath(pat), child))
       IN  /\ apps' = [apps EXCEPT ![a].routes = res.router]
           /\ phase' = IF res.ok THEN phase ELSE "panicked"
           /\ rejected' = IF res.ok THEN rejected
                          ELSE Reg(a, "ALL", MountPath(pat),
                                   MountedApp(a, MountPath(pat), child))
    /\ UNCHANGED <<req, stack, ret, sent, trace, withCalls, lock, spc, store, sid>>

RouteMount(a, pat, child) ==
    /\ phase = "setup"
    /\ a # child /\ child # Root
    /\ ~Mounted(a) /\ ~Mounted(child)
    /\ RouteCount(a) < MaxRoutes
    /\ LET res == add_all(apps[a].routes, MountPath(pat),
                          MountedApp(a, MountPath(pat), child))
       IN  /\ apps' = [apps EXCEPT ![a].routes = res.router]
           /\ phase' = IF res.ok THEN phase ELSE "panicked"
           /\ rejected' = IF res.ok THEN rejected
                          ELSE Reg(a, "ALL", MountPath(pat),
                                   MountedApp(a, MountPath(pat), child))
    /\ UNCHANGED <<req, stack, ret, sent, trace, withCalls, lock, spc, store, sid>>

\* App::with on an App that could still be borrowed mutably while it serves
With_after_serve(a, filter) ==
    /\ phase \in {"setup", "serving"}
    /\ ~Mounted(a)
    /\ Len(apps[a].filters) < MaxFilters
    /\ apps' = [apps EXCEPT ![a].filters = Append(@, filter)]
    /\ withCalls' = [withCalls EXCEPT ![a] = Append(@, filter)]
    /\ UNCHANGED <<phase, req, stack, ret, sent, trace, rejected, lock, spc, store, sid>>

\* App::with (app.rs:124-129)
With(a, filter) ==
    /\ phase = "setup"
    /\ ~Mounted(a)
    /\ Len(apps[a].filters) < MaxFilters
    /\ apps' = [apps EXCEPT ![a].filters = Append(@, filter)]
    /\ withCalls' = [withCalls EXCEPT ![a] = Append(@, filter)]
    /\ UNCHANGED <<phase, req, stack, ret, sent, trace, rejected, lock, spc, store, sid>>

\* App::internal_serve (app.rs:156-157), TestClient::new (test_client.rs:16-18):
\* the App moves behind an Arc and nothing can register on it any more
Serve ==
    /\ phase = "setup"
    /\ phase' = "serving"
    /\ UNCHANGED <<apps, req, stack, ret, sent, trace, withCalls, rejected, lock, spc, store, sid>>

-----------------------------------------------------------------------------
(* Sessions (filter/session.rs:28-167) *)

\* HashMap::new()
NoData == [k \in {} |-> ""]

\* the keys a session can hold, in the order they are written out
SessionKeys == <<"a", "b", "hello">>

\* serde_urlencoded::to_string (session.rs:222): the text "k=v&k=v" as the
\* sequence of its pairs
to_string(data) ==
    LET ks == SelectSeq(SessionKeys, LAMBDA k : k \in DOMAIN data)
    IN  [i \in 1 .. Len(ks) |-> <<ks[i], data[ks[i]]>>]

\* serde_urlencoded::from_str (session.rs:206): the map of the pairs of the
\* text, the last pair of a key giving its value
from_str(raw) ==
    [k \in {raw[i][1] : i \in 1 .. Len(raw)} |->
        raw[CHOOSE i \in 1 .. Len(raw) :
                /\ raw[i][1] = k
                /\ \A j \in i + 1 .. Len(raw) : raw[j][1] # k][2]]

\* a store that adds the pairs of the new text to those it has for the id
store_set_merge(data, id, value) ==
    [k \in (DOMAIN data) \cup {id} |->
        IF k = id
        THEN IF id \in DOMAIN data THEN data[id] \o value ELSE value
        ELSE data[k]]

\* MemorySessionStore::set (session.rs:50-54): HashMap::insert
store_set(data, id, value) ==
    [k \in (DOMAIN data) \cup {id} |-> IF k = id THEN value ELSE data[k]]

\* MemorySessionStore::get (session.rs:45-48) and unwrap_or_else(String::new)
\* (session.rs:205)
store_get(data, id) == IF id \in DOMAIN data THEN data[id] ELSE <<>>

\* Session::default() (session.rs:115-125)
SessionDefault == [modified |-> FALSE, data |-> NoData]

\* SessionInner::set (session.rs:133-137)
session_set(session, key, value) ==
    [modified |-> TRUE,
     data |-> [k \in (DOMAIN session.data) \cup {key} |->
                  IF k = key THEN value ELSE session.data[k]]]

\* SessionInner::load (session.rs:143-149)
session_load(session, data) == [modified |-> FALSE, data |-> data]

\* session ids: the value of the session cookie of a request that has one,
\* and the ids Uuid::new_v4 makes (session.rs:211)
NoSid == -1
CookieSid == 0
Uuids == 1 .. MaxSessions

-----------------------------------------------------------------------------
(* Requests, contexts and the observations a request leaves behind *)

\* is a request in flight on connection r: dispatched and its Request (with
\* the context it owns) not yet dropped
InFlight(r) == stack[r] # <<>> \/ ret[r] # NoResult

\* a value nobody owns yet: new_context returns an owned S::Context, which
\* lives until the Request that holds it is dropped
FreshContext(r) ==
    CHOOSE n \in 1 .. NReq + 1 :
        /\ \A q \in Reqs \ {r} : InFlight(q) => req[q].context.id # n
        /\ \A k \in 1 .. n - 1 :
              \E q \in Reqs \ {r} : InFlight(q) /\ req[q].context.id = k

\* State::new_context (state.rs:14): a context made by the State of App a,
\* the value n
new_context(a, n) ==
    [by |-> a, id |-> n, into |-> <<>>, session |-> SessionDefault]

NoContext == [by |-> "", id |-> 0, into |-> <<>>, session |-> SessionDefault]

\* S2::Context: From<S::Context> (app.rs:88, app.rs:213): the context of the
\* outer App converted for the inner one
ContextInto(ctx, a) == [ctx EXCEPT !.into = Append(@, a)]

\* Request::new (request.rs:24-38)
RequestNew(app, inner, params, context) ==
    [app |-> app, inner |-> inner, params |-> params, context |-> context]

\* hyper::Request: what the transport read from the connection: the method,
\* the path, whether it carries a bearer token, and whether its Cookie
\* headers parse
Cookies == {"none", "bad"}

Inner(method, uri, auth, cookie) ==
    [method |-> method, uri |-> uri, auth |-> auth, cookie |-> cookie]

NoRequest ==
    RequestNew("", Inner("", Path(<<>>), FALSE, "none"), NoParams, NoContext)

\* merge_params that leaves the reserved rest parameter of the request alone
merge_params_keeps_rest(request, params) ==
    [request EXCEPT !.params =
        [k \in (DOMAIN @) \cup (DOMAIN params) |->
            IF k \in DOMAIN params /\ ~(k = REST /\ k \in DOMAIN @)
            THEN params[k] ELSE @[k]]]

\* merge_params that inserts only the keys the request does not have yet
merge_params_outer_wins(request, params) ==
    [request EXCEPT !.params =
        [k \in (DOMAIN @) \cup (DOMAIN params) |->
            IF k \in DOMAIN @ THEN @[k] ELSE params[k]]]

\* merge_params that leaves the parameters of the request as they are
merge_params_none(request, params) == request

\* Request::merge_params (request.rs:44-48)
RECURSIVE MergeKeys(_, _, _)
MergeKeys(mine, params, keys) ==
    IF keys = {} THEN mine
    ELSE LET k == CHOOSE k \in keys : TRUE
         IN  MergeKeys(ParamsInsert(mine, k, params[k]), params, keys \ {k})

merge_params(request, params) ==
    [request EXCEPT !.params = MergeKeys(@, params, DOMAIN params)]

\* one observation: a lookup and its result ("lookup"), a context made
\* ("new_context") or converted for the request of the inner App, with the
\* parameters of that request ("into"), an endpoint called ("call"), a
\* filter entered ("pre"), a filter returning what the rest of the chain
\* returned to it ("post") or returning without having called next ("short")
Event(ev, app, idx, ep, params, path, res) ==
    [ev |-> ev, app |-> app, idx |-> idx, ep |-> ep, params |-> params,
     path |-> path, res |-> res]

FilterEp(name) == Ep("filter", <<>>, name)

-----------------------------------------------------------------------------
(* Next and Filter (filter.rs:18-61) *)

\* Next { ep, rest } of App a; Moved is a Next that has been used
NextOf(a, ep, rest) == [app |-> a, ep |-> ep, rest |-> rest, moved |-> FALSE]
Moved == [app |-> "", ep |-> NoEp, rest |-> <<>>, moved |-> TRUE]

\* a Next that could be copied: the caller keeps it after the call
TakeNext_copy(next) == next

\* Next::next takes self by value: the caller is left without it
TakeNext(next) == Moved

\* Next::next that walks the filters from the last one
NextNext_from_last(next) ==
    IF next.rest # <<>>
    THEN [filter |-> TRUE, head |-> next.rest[Len(next.rest)],
          next |-> NextOf(next.app, next.ep,
                          SubSeq(next.rest, 1, Len(next.rest) - 1))]
    ELSE [filter |-> FALSE, head |-> "", next |-> next]

\* Next::next (filter.rs:30-38): the head filter with the Next for the rest,
\* or the endpoint when no filter is left
NextNext(next) ==
    IF next.rest # <<>>
    THEN [filter |-> TRUE, head |-> Head(next.rest),
          next |-> NextOf(next.app, next.ep, Tail(next.rest))]
    ELSE [filter |-> FALSE, head |-> "", next |-> next]

\* the position in App.filters of the head of `rest`
Position(a, rest) == Len(apps[a].filters) - Len(rest) + 1

\* frames of the call stack
NextFrame(next) ==
    [kind |-> "next", next |-> next, idx |-> 0, name |-> "", app |-> next.app]
FilterFrame(a, name, idx, next) ==
    [kind |-> "filter", next |-> next, idx |-> idx, name |-> name, app |-> a]
MountFrame == [kind |-> "mount", next |-> Moved, idx |-> 0, name |-> "", app |-> ""]

Top(r) == stack[r][Len(stack[r])]
Pop(r) == SubSeq(stack[r], 1, Len(stack[r]) - 1)

StatusOk == 200
StatusBadRequest == 400
StatusUnauthorized == 401
StatusForbidden == 403
StatusNotFound == 404
StatusMethodNotAllowed == 405
StatusInternalServerError == 500

\* the filters of the model:
\*   Log        filter/log.rs: passes the request on, returns the result
\*   AuthCheck  examples/simple.rs:105-119: 401 without a bearer token
\*   A, B       closures that pass the request on and return the result
\*   Again      a closure that calls next on every Next it still owns
\*   Session    filter/session.rs:193-244: fails on a Cookie header that
\*              does not parse, passes a downstream error on with `?`
\*   Deny       a closure that returns Err(Error::http(..)) without calling
\*              next
Filters == {"Log", "AuthCheck", "A", "B", "Again", "Session", "Deny"}

\* does the filter call next.next(req) with this request
CallsNext(name, request) ==
    CASE name = "AuthCheck" -> request.inner.auth
      [] name = "Session"   -> request.inner.cookie # "bad"
      [] name = "Deny"      -> FALSE
      [] OTHER              -> TRUE

\* what a filter that does not call next returns: AuthCheck a 401 response
\* (simple.rs:111), Session the error of req.cookies()? (session.rs:196-199,
\* request.rs:102-105, error.rs:55-64), Deny an HTTP error
ShortCircuit(name) ==
    CASE name = "Session" -> ErrInternal
      [] name = "Deny"    -> ErrHttp(Response(StatusUnauthorized, <<"Deny">>))
      [] OTHER            -> Ok(Response(StatusUnauthorized, EmptyBody))

\* a filter that answers an Internal error from further down with a response
\* of its own
FilterPost_swallow(name, result) ==
    IF result.kind = "Internal"
    THEN Ok(Response(StatusInternalServerError, EmptyBody)) ELSE result

\* a filter that answers for itself whatever the chain returned
FilterPost_own(name, result) == Ok(Response(StatusOk, EmptyBody))

\* what a filter returns once next.next has returned `result`: Log and the
\* closures return it as it is (log.rs:56); Session returns an Err through
\* `?` (session.rs:214) and an Ok as Ok(resp) (session.rs:242), with the
\* session cookie set on it in SessionSave when the session was modified
FilterPost(name, result) == result

-----------------------------------------------------------------------------
(* Dispatch (app.rs:168-184) and the calls it leads to *)

Observe(r, events) == trace' = [trace EXCEPT ![r] = @ \o events]

\* a dispatch that answers 404 and 405 itself, past the filters
Dispatch_direct(r, method, uri, auth, cookie) ==
    /\ phase = "serving"
    /\ stack[r] = <<>> /\ ret[r] = NoResult
    /\ LET t   == lookup(apps[Root].routes, method, uri)
           ctx == new_context(Root, FreshContext(r))
           rest == IF t.ep \in {not_found, method_not_allowed} THEN <<>>
                   ELSE apps[Root].filters
       IN  /\ req' = [req EXCEPT ![r] =
                         RequestNew(Root, Inner(method, uri, auth, cookie),
                                    t.params, ctx)]
           /\ stack' = [stack EXCEPT ![r] =
                         <<NextFrame(NextOf(Root, t.ep, rest))>>]
           /\ trace' = [trace EXCEPT ![r] =
                         <<Event("lookup", Root, 0, t.ep, t.params, uri, NoResult),
                           Event("new_context", Root, 0, NoEp, NoParams, uri,
                                 NoResult)>>]
    /\ sent' = [sent EXCEPT ![r] = NoResponse]
    /\ UNCHANGED <<apps, phase, ret, withCalls, rejected, lock, spc, store, sid>>

\* a dispatch that keeps the Request in a place all the tasks share
Dispatch_shared(r, method, uri, auth, cookie) ==
    /\ phase = "serving"
    /\ stack[r] = <<>> /\ ret[r] = NoResult
    /\ LET t   == lookup(apps[Root].routes, method, uri)
           ctx == new_context(Root, FreshContext(r))
       IN  /\ req' = [q \in Reqs |->
                         RequestNew(Root, Inner(method, uri, auth, cookie),
                                    t.params, ctx)]
           /\ stack' = [stack EXCEPT ![r] =
                         <<NextFrame(NextOf(Root, t.ep, apps[Root].filters))>>]
           /\ trace' = [trace EXCEPT ![r] =
                         <<Event("lookup", Root, 0, t.ep, t.params, uri, NoResult),
                           Event("new_context", Root, 0, NoEp, NoParams, uri,
                                 NoResult)>>]
    /\ sent' = [sent EXCEPT ![r] = NoResponse]
    /\ UNCHANGED <<apps, phase, ret, withCalls, rejected, lock, spc, store, sid>>

\* the closure of service_fn up to next.next(req): lookup, new_context,
\* Request::new and the Next over all the filters of the App
Dispatch(r, method, uri, auth, cookie) ==
    /\ phase = "serving"
    /\ stack[r] = <<>> /\ ret[r] = NoResult
    /\ LET t   == lookup(apps[Root].routes, method, uri)
           ctx == new_context(Root, FreshContext(r))
       IN  /\ req' = [req EXCEPT ![r] =
                         RequestNew(Root, Inner(method, uri, auth, cookie),
                                    t.params, ctx)]
           /\ stack' = [stack EXCEPT ![r] =
                         <<NextFrame(NextOf(Root, t.ep, apps[Root].filters))>>]
           /\ trace' = [trace EXCEPT ![r] =
                         <<Event("lookup", Root, 0, t.ep, t.params, uri, NoResult),
                           Event("new_context", Root, 0, NoEp, NoParams, uri,
                                 NoResult)>>]
    /\ sent' = [sent EXCEPT ![r] = NoResponse]
    /\ UNCHANGED <<apps, phase, ret, withCalls, rejected, lock, spc, store, sid>>

\* a filter returning without calling next that ends the whole request, the
\* filters above it never getting the result
ApplyFilter_abort(r) ==
    /\ stack[r] # <<>>
    /\ Top(r).kind = "next"
    /\ NextNext(Top(r).next).filter
    /\ LET step == NextNext(Top(r).next)
           a    == Top(r).next.app
           idx  == Position(a, Top(r).next.rest)
           pre  == Event("pre", a, idx, FilterEp(step.head), req[r].params,
                         req[r].inner.uri, NoResult)
           short == Event("short", a, idx, FilterEp(step.head), NoParams,
                          req[r].inner.uri, ShortCircuit(step.head))
       IN  IF CallsNext(step.head, req[r])
           THEN /\ stack' = [stack EXCEPT ![r] = Pop(r) \o
                      <<FilterFrame(a, step.head, idx, TakeNext(step.next)),
                        NextFrame(step.next)>>]
                /\ Observe(r, <<pre>>)
                /\ UNCHANGED ret
           ELSE /\ stack' = [stack EXCEPT ![r] = <<>>]
                /\ Observe(r, <<pre, short>>)
                /\ ret' = [ret EXCEPT ![r] = ShortCircuit(step.head)]
    /\ UNCHANGED <<apps, phase, req, sent, withCalls, rejected, lock, spc, store, sid>>

\* Next::next with a filter left (filter.rs:32-35) and the filter's apply up
\* to the point where it awaits next.next or returns without calling it
ApplyFilter(r) ==
    /\ stack[r] # <<>>
    /\ Top(r).kind = "next"
    /\ NextNext(Top(r).next).filter
    /\ LET step == NextNext(Top(r).next)
           a    == Top(r).next.app
           idx  == Position(a, Top(r).next.rest)
           pre  == Event("pre", a, idx, FilterEp(step.head), req[r].params,
                         req[r].inner.uri, NoResult)
           short == Event("short", a, idx, FilterEp(step.head), NoParams,
                          req[r].inner.uri, ShortCircuit(step.head))
       IN  IF CallsNext(step.head, req[r])
           THEN /\ stack' = [stack EXCEPT ![r] = Pop(r) \o
                      <<FilterFrame(a, step.head, idx, TakeNext(step.next)),
                        NextFrame(step.next)>>]
                /\ Observe(r, <<pre>>)
                /\ UNCHANGED ret
           ELSE /\ stack' = [stack EXCEPT ![r] = Pop(r)]
                /\ Observe(r, <<pre, short>>)
                /\ ret' = [ret EXCEPT ![r] = ShortCircuit(step.head)]
    /\ UNCHANGED <<apps, phase, req, sent, withCalls, rejected, lock, spc, store, sid>>

-----------------------------------------------------------------------------
(* StaticFiles (static_files.rs:9-83); a path is the sequence of its
   components *)

\* the directory Route::static_files is given (simple.rs:248)
StaticRoot == <<"examples", "resources">>

\* the files on the disk: one under the root, two outside of it
StaticDisk ==
    { <<"examples", "resources", "x">>, <<"examples", "secret">>, <<"secret">> }

\* StaticFiles::new (static_files.rs:22-32): the pattern of the route
\* without its final wildcard segment
StaticPrefix(pat) == [i \in 1 .. Len(pat) - 1 |-> pat[i].v]

\* Path::starts_with: base is a prefix of path, component by component
starts_with(path, base) ==
    Len(base) <= Len(path) /\ SubSeq(path, 1, Len(base)) = base

\* PathBuf::pop: without the last component; a path without components
\* stays as it is
PathPop(path) ==
    IF path = <<>> THEN path ELSE SubSeq(path, 1, Len(path) - 1)

\* the loop of static_files.rs:45-64 over the components of the path after
\* the prefix: a normal component is pushed, `.` (and the empty component
\* that Path::components drops) is skipped, `..` pops
RECURSIVE Resolve(_, _)
Resolve(target, parts) ==
    IF parts = <<>> THEN target
    ELSE CASE Head(parts) = ".." -> Resolve(PathPop(target), Tail(parts))
           [] Head(parts) \in {".", ""} -> Resolve(target, Tail(parts))
           [] OTHER -> Resolve(Append(target, Head(parts)), Tail(parts))

\* StaticFiles::call without the test of static_files.rs:68
StaticFilesCall_unchecked(ep, request) ==
    LET path   == request.inner.uri.segs
        prefix == StaticPrefix(ep.id[3])
    IN  IF ~starts_with(path, prefix) THEN ErrInternal
        ELSE LET target == Resolve(StaticRoot, SubSeqFrom(path, Len(prefix) + 1))
             IN  IF target \notin StaticDisk
                 THEN Ok(Response(StatusNotFound, EmptyBody))
                 ELSE Ok(Response(StatusOk, target))

\* StaticFiles::call (static_files.rs:40-82): strip_prefix fails with an
\* error (`?`), a target that does not start with the root is answered 403,
\* one that is not a file 404, a file is sent
StaticFilesCall(ep, request) ==
    LET path   == request.inner.uri.segs
        prefix == StaticPrefix(ep.id[3])
    IN  IF ~starts_with(path, prefix) THEN ErrInternal
        ELSE LET target == Resolve(StaticRoot, SubSeqFrom(path, Len(prefix) + 1))
             IN  IF ~starts_with(target, StaticRoot)
                 THEN Ok(Response(StatusForbidden, EmptyBody))
                 ELSE IF target \notin StaticDisk
                 THEN Ok(Response(StatusNotFound, EmptyBody))
                 ELSE Ok(Response(StatusOk, target))

\* Request::param that reports a missing parameter as an internal error
param_internal(request, name) ==
    IF name \in DOMAIN request.params
    THEN [kind |-> "Ok", value |-> request.params[name], err |-> NoResult]
    ELSE [kind |-> "Err", value |-> Word(""), err |-> ErrInternal]

\* Request::param (request.rs:113-118): the value of the parameter, or
\* Error::http(StatusCode::BAD_REQUEST)
param(request, name) ==
    IF name \in DOMAIN request.params
    THEN [kind |-> "Ok", value |-> request.params[name], err |-> NoResult]
    ELSE [kind |-> "Err", value |-> Word(""),
          err |-> ErrHttp(Response(StatusBadRequest, EmptyBody))]

\* a handler that answers with the parameter `name`:
\* `let name = req.param("name")?; Ok(name.to_owned())`
EchoParam(ep, request) ==
    LET p == param(request, "name")
    IN  IF p.kind = "Ok" THEN Ok(Response(StatusOk, <<p.value>>)) ELSE p.err

\* the request as a handler leaves it: the bodies "set", "set_err" (which
\* then returns an HTTP error) and "set_internal" (an Internal error) call
\* req.session().set(key, value) (simple.rs:182, session.rs:133-137, 159-161),
\* here with the first segment of their route as the key and its method as
\* the value
HandlerSession(ep, request) ==
    IF ep.arg \in {"set", "set_err", "set_internal"}
    THEN [request EXCEPT !.context.session =
             session_set(@, ep.id[3][1].v, ep.id[2])]
    ELSE request

\* what a handler makes of a request (endpoint.rs:34-45): the value it
\* returns, through Responder::into_response
HandlerResult(ep, request) ==
    CASE ep.arg = "ok"       -> Ok(Response(StatusOk, ep.id))
      [] ep.arg = "http"     -> ErrHttp(Response(StatusBadRequest, ep.id))
      [] ep.arg = "internal" -> ErrInternal
      [] ep.arg = "set"      -> Ok(Response(StatusOk, ep.id))
      [] ep.arg = "set_err"  -> ErrHttp(Response(StatusBadRequest, ep.id))
      [] ep.arg = "set_internal" -> ErrInternal
      [] ep.arg = "param"    -> EchoParam(ep, request)
      [] ep.arg = "static"   -> StaticFilesCall(ep, request)

\* MountedApp::call (app.rs:204-216) with the whole path of the request
\* looked up in the inner App
MountedAppCall_whole_path(child, outer) ==
    LET t == lookup(apps[child].routes, outer.inner.method, outer.inner.uri)
        ctx == ContextInto(outer.context, child)
    IN  [path_rest |-> outer.inner.uri, target |-> t,
         req2 |-> merge_params(
                     RequestNew(child, outer.inner, outer.params, ctx), t.params)]

\* MountedApp::call (app.rs:204-216) that asks the State of the inner App for
\* a context of its own
MountedAppCall_new_context(child, outer) ==
    LET path_rest == outer.params[REST]
        t    == lookup(apps[child].routes, outer.inner.method, path_rest)
        ctx  == new_context(child, outer.context.id)
    IN  [path_rest |-> path_rest, target |-> t,
         req2 |-> merge_params(
                     RequestNew(child, outer.inner, outer.params, ctx), t.params)]

\* MountedApp::call (app.rs:204-216): the rest of the path is looked up in the
\* inner App with the method of the request, and the request for the inner
\* App carries the outer parameters with the inner ones merged in
MountedAppCall(child, outer) ==
    LET path_rest == outer.params[REST]
        t    == lookup(apps[child].routes, outer.inner.method, path_rest)
        ctx  == ContextInto(outer.context, child)
    IN  [path_rest |-> path_rest, target |-> t,
         req2 |-> merge_params(
                     RequestNew(child, outer.inner, outer.params, ctx), t.params)]

\* a mount adapter that calls the endpoint of the inner App past its filters
ChildNext_no_filters(child, ep) == NextOf(child, ep, <<>>)

\* a mount adapter that answers 404 and 405 of the inner App past its filters
ChildNext_synthetic_direct(child, ep) ==
    NextOf(child, ep, IF ep \in {not_found, method_not_allowed} THEN <<>>
                      ELSE apps[child].filters)

\* the Next MountedApp::call starts (app.rs:219-222): the endpoint the inner
\* lookup resolved, behind all the filters of the inner App
ChildNext(child, ep) == NextOf(child, ep, apps[child].filters)

\* MountedApp::call (app.rs:204-225) up to next.next(req2); without the
\* reserved parameter `expect` panics
MountedCall(r, ep) ==
    LET outer == req[r]
        child == ep.arg
        call  == Event("call", Top(r).next.app, 0, ep, outer.params,
                       outer.inner.uri, NoResult)
    IN  IF REST \notin DOMAIN outer.params
        THEN /\ ret' = [ret EXCEPT ![r] = Panic]
             /\ stack' = [stack EXCEPT ![r] = <<>>]
             /\ Observe(r, <<call>>)
             /\ UNCHANGED req
        ELSE LET c == MountedAppCall(child, outer)
             IN  /\ req' = [req EXCEPT ![r] = c.req2]
                 /\ stack' = [stack EXCEPT ![r] = Pop(r) \o
                        <<MountFrame,
                          NextFrame(ChildNext(child, c.target.ep))>>]
                 /\ Observe(r,
                        <<call,
                          Event("lookup", child, 0, c.target.ep, c.target.params,
                                c.path_rest, NoResult),
                          Event("into", child, 0, NoEp, c.req2.params,
                                c.path_rest, NoResult)>>)
                 /\ UNCHANGED ret

\* Next::next with no filter left (filter.rs:36): ep.call(req)
CallEndpoint(r) ==
    /\ stack[r] # <<>>
    /\ Top(r).kind = "next"
    /\ ~NextNext(Top(r).next).filter
    /\ LET ep == NextNext(Top(r).next).next.ep
           a  == Top(r).next.app
           call == Event("call", a, 0, ep, req[r].params, req[r].inner.uri,
                         NoResult)
       IN  CASE ep.kind = "mount" -> MountedCall(r, ep)
             [] ep.kind = "handler" ->
                    /\ ret' = [ret EXCEPT ![r] = HandlerResult(ep, req[r])]
                    /\ stack' = [stack EXCEPT ![r] = Pop(r)]
                    /\ Observe(r, <<call>>)
                    /\ req' = [req EXCEPT ![r] = HandlerSession(ep, @)]
             [] ep.kind = "not_found" ->
                    /\ ret' = [ret EXCEPT ![r] = Ok(Response(StatusNotFound, EmptyBody))]
                    /\ stack' = [stack EXCEPT ![r] = Pop(r)]
                    /\ Observe(r, <<call>>)
                    /\ UNCHANGED req
             [] ep.kind = "method_not_allowed" ->
                    /\ ret' = [ret EXCEPT ![r] =
                                  Ok(Response(StatusMethodNotAllowed, EmptyBody))]
                    /\ stack' = [stack EXCEPT ![r] = Pop(r)]
                    /\ Observe(r, <<call>>)
                    /\ UNCHANGED req
    /\ UNCHANGED <<apps, phase, sent, withCalls, rejected, lock, spc, store, sid>>

\* next.next(req).await returns into the filter that called it, which returns
\* in its turn (log.rs:41-56); a filter that still owns a Next and is written
\* to use it calls it
ReturnToFilter(r) ==
    /\ stack[r] # <<>>
    /\ Top(r).kind = "filter"
    /\ ret[r] \notin {NoResult, Panic}
    /\ LET f == Top(r)
       IN  IF f.name = "Again" /\ ~f.next.moved
           THEN /\ stack' = [stack EXCEPT ![r] = Pop(r) \o
                      <<FilterFrame(f.app, f.name, f.idx, TakeNext(f.next)),
                        NextFrame(f.next)>>]
                /\ ret' = [ret EXCEPT ![r] = NoResult]
                /\ UNCHANGED trace
           ELSE /\ stack' = [stack EXCEPT ![r] = Pop(r)]
                /\ ret' = [ret EXCEPT ![r] = FilterPost(f.name, ret[r])]
                /\ Observe(r, <<Event("post", f.app, f.idx, FilterEp(f.name),
                                      NoParams, req[r].inner.uri, ret[r])>>)
    /\ UNCHANGED <<apps, phase, req, sent, withCalls, rejected, lock, spc, store, sid>>

-----------------------------------------------------------------------------
(* SessionFilter::apply (filter/session.rs:193-244), step by step *)

\* the filter Next::next is about to apply for connection r, "" if none
HeadFilter(r) ==
    IF stack[r] # <<>> /\ Top(r).kind = "next" /\ NextNext(Top(r).next).filter
    THEN NextNext(Top(r).next).head ELSE ""

\* the filter whose apply waits for connection r's chain or store, "" if none
TopFilter(r) ==
    IF stack[r] # <<>> /\ Top(r).kind = "filter" THEN Top(r).name ELSE ""

\* a session that counts as modified whatever was done with it
is_modified_always(r) == TRUE

\* Session::is_modified (session.rs:139-141, 164-166) on the session of the
\* request's context, which the filter holds by its Arc (session.rs:194)
is_modified(r) == req[r].context.session.modified

\* the ids Uuid::new_v4 can still return: those no session has
FreshUuids == Uuids \ ((DOMAIN store) \cup {sid[q] : q \in Reqs})

\* Response::set_raw_header(SetCookie::name(), cookie) (session.rs:237)
set_cookie(resp, id) ==
    [status |-> resp.status, body |-> resp.body, set_cookie |-> id]

\* session.rs:193-212: the cookies of the request; without a session cookie
\* the filter goes on to next.next(req) (session.rs:214), with one it asks
\* for the lock of the store (session.rs:204)
SessionApply(r) ==
    /\ HeadFilter(r) = "Session"
    /\ spc[r] = ""
    /\ req[r].inner.cookie = "none" => FreshUuids # {}
    /\ LET step == NextNext(Top(r).next)
           a    == Top(r).next.app
           idx  == Position(a, Top(r).next.rest)
           pre  == Event("pre", a, idx, FilterEp(step.head), req[r].params,
                         req[r].inner.uri, NoResult)
           short == Event("short", a, idx, FilterEp(step.head), NoParams,
                          req[r].inner.uri, ShortCircuit(step.head))
       IN  CASE req[r].inner.cookie = "bad" ->
                    /\ stack' = [stack EXCEPT ![r] = Pop(r)]
                    /\ Observe(r, <<pre, short>>)
                    /\ ret' = [ret EXCEPT ![r] = ShortCircuit(step.head)]
                    /\ UNCHANGED <<spc, sid>>
             [] req[r].inner.cookie = "sid" ->
                    /\ stack' = [stack EXCEPT ![r] = Pop(r) \o
                          <<FilterFrame(a, step.head, idx, step.next)>>]
                    /\ Observe(r, <<pre>>)
                    /\ spc' = [spc EXCEPT ![r] = "load_wait"]
                    /\ sid' = [sid EXCEPT ![r] = CookieSid]
                    /\ UNCHANGED ret
             [] OTHER ->
                    /\ stack' = [stack EXCEPT ![r] = Pop(r) \o
                          <<FilterFrame(a, step.head, idx, TakeNext(step.next)),
                            NextFrame(step.next)>>]
                    /\ Observe(r, <<pre>>)
                    /\ sid' = [sid EXCEPT ![r] =
                                  CHOOSE u \in FreshUuids :
                                      \A v \in FreshUuids : u <= v]
                    /\ UNCHANGED <<ret, spc>>
    /\ UNCHANGED <<apps, phase, req, sent, withCalls, rejected, lock, store>>

\* a lock that is handed out while another task holds its guard
SessionLock_no_wait(r) ==
    /\ spc[r] \in {"load_wait", "save_wait"}
    /\ lock' = r
    /\ spc' = [spc EXCEPT ![r] = IF @ = "load_wait" THEN "load_op" ELSE "save_op"]
    /\ UNCHANGED <<apps, phase, req, stack, ret, sent, trace, withCalls, rejected, store, sid>>

\* self.store.lock().await (session.rs:204, session.rs:219) returns the guard
\* once no other task holds it; the operation on the store begins
SessionLock(r) ==
    /\ spc[r] \in {"load_wait", "save_wait"}
    /\ lock = 0
    /\ lock' = r
    /\ spc' = [spc EXCEPT ![r] = IF @ = "load_wait" THEN "load_op" ELSE "save_op"]
    /\ UNCHANGED <<apps, phase, req, stack, ret, sent, trace, withCalls, rejected, store, sid>>

\* a guard that lives until apply returns
SessionLoad_keeps_guard(r) ==
    /\ spc[r] = "load_op"
    /\ spc' = [spc EXCEPT ![r] = ""]
    /\ LET f == Top(r)
       IN  stack' = [stack EXCEPT ![r] = Pop(r) \o
                <<FilterFrame(f.app, f.name, f.idx, TakeNext(f.next)),
                  NextFrame(f.next)>>]
    /\ req' = [req EXCEPT ![r].context.session =
                  session_load(@, from_str(store_get(store, sid[r])))]
    /\ UNCHANGED <<apps, phase, ret, sent, trace, withCalls, rejected, lock, store, sid>>

\* store.get returns and the session is loaded (session.rs:205-207); the
\* guard is dropped at the end of its block (session.rs:209) and the filter
\* goes on to next.next(req) (session.rs:214)
SessionLoad(r) ==
    /\ spc[r] = "load_op"
    /\ lock' = 0
    /\ spc' = [spc EXCEPT ![r] = ""]
    /\ LET f == Top(r)
       IN  stack' = [stack EXCEPT ![r] = Pop(r) \o
                <<FilterFrame(f.app, f.name, f.idx, TakeNext(f.next)),
                  NextFrame(f.next)>>]
    /\ req' = [req EXCEPT ![r].context.session =
                  session_load(@, from_str(store_get(store, sid[r])))]
    /\ UNCHANGED <<apps, phase, ret, sent, trace, withCalls, rejected, store, sid>>

\* a filter that saves a modified session whatever the chain returned
SessionReturn_saves_on_err(r) ==
    /\ TopFilter(r) = "Session"
    /\ spc[r] = ""
    /\ ret[r] \notin {NoResult, Panic}
    /\ LET f == Top(r)
       IN  IF is_modified(r)
           THEN /\ spc' = [spc EXCEPT ![r] = "save_wait"]
                /\ UNCHANGED <<stack, ret, trace, sid>>
           ELSE /\ stack' = [stack EXCEPT ![r] = Pop(r)]
                /\ ret' = [ret EXCEPT ![r] = FilterPost(f.name, ret[r])]
                /\ Observe(r, <<Event("post", f.app, f.idx, FilterEp(f.name),
                                      NoParams, req[r].inner.uri, ret[r])>>)
                /\ sid' = [sid EXCEPT ![r] = NoSid]
                /\ UNCHANGED spc
    /\ UNCHANGED <<apps, phase, req, sent, withCalls, rejected, lock, store>>

\* next.next(req).await? has returned (session.rs:214): an Err is returned
\* as it is, an Ok of an unmodified session too (session.rs:216, 242); a
\* modified session asks for the lock of the store (session.rs:219)
SessionReturn(r) ==
    /\ TopFilter(r) = "Session"
    /\ spc[r] = ""
    /\ ret[r] \notin {NoResult, Panic}
    /\ LET f == Top(r)
       IN  IF ret[r].kind = "Ok" /\ is_modified(r)
           THEN /\ spc' = [spc EXCEPT ![r] = "save_wait"]
                /\ UNCHANGED <<stack, ret, trace, sid>>
           ELSE /\ stack' = [stack EXCEPT ![r] = Pop(r)]
                /\ ret' = [ret EXCEPT ![r] = FilterPost(f.name, ret[r])]
                /\ Observe(r, <<Event("post", f.app, f.idx, FilterEp(f.name),
                                      NoParams, req[r].inner.uri, ret[r])>>)
                /\ sid' = [sid EXCEPT ![r] = NoSid]
                /\ UNCHANGED spc
    /\ UNCHANGED <<apps, phase, req, sent, withCalls, rejected, lock, store>>

\* store.set returns (session.rs:239), the guard is dropped at the end of
\* its block (session.rs:240) and the response is returned (session.rs:242),
\* status and body as the chain returned them
SessionSave(r) ==
    /\ spc[r] = "save_op"
    /\ lock' = 0
    /\ spc' = [spc EXCEPT ![r] = ""]
    /\ LET f == Top(r)
       IN  /\ stack' = [stack EXCEPT ![r] = Pop(r)]
           /\ ret' = [ret EXCEPT ![r] =
                         FilterPost(f.name, Ok(set_cookie(ret[r].resp, sid[r])))]
           /\ Observe(r, <<Event("post", f.app, f.idx, FilterEp(f.name),
                                 NoParams, req[r].inner.uri, ret[r])>>)
    /\ store' = store_set(store, sid[r], to_string(req[r].context.session.data))
    /\ sid' = [sid EXCEPT ![r] = NoSid]
    /\ UNCHANGED <<apps, phase, req, sent, withCalls, rejected>>

\* a mount adapter that turns the error of the inner chain into a response
ReturnToMount_converts(r) ==
    /\ stack[r] # <<>>
    /\ Top(r).kind = "mount"
    /\ ret[r] \notin {NoResult, Panic}
    /\ stack' = [stack EXCEPT ![r] = Pop(r)]
    /\ ret' = [ret EXCEPT ![r] =
                  IF @.kind = "Internal"
                  THEN Ok(Response(StatusInternalServerError, EmptyBody)) ELSE @]
    /\ UNCHANGED <<apps, phase, req, sent, trace, withCalls, rejected, lock, spc, store, sid>>

\* a mount adapter that never returns what the inner chain returned to it
ReturnToMount_pending(r) ==
    /\ stack[r] # <<>>
    /\ Top(r).kind = "mount"
    /\ ret[r] \notin {NoResult, Panic}
    /\ UNCHANGED vars

\* next.next(req2).await returns into MountedApp::call, which returns it
\* (app.rs:224)
ReturnToMount(r) ==
    /\ stack[r] # <<>>
    /\ Top(r).kind = "mount"
    /\ ret[r] \notin {NoResult, Panic}
    /\ stack' = [stack EXCEPT ![r] = Pop(r)]
    /\ UNCHANGED <<apps, phase, req, ret, sent, trace, withCalls, rejected, lock, spc, store, sid>>

\* into_response that hands every error on as it is
ErrorIntoResponse_passes(err) == err

\* into_response that answers every error with a status-only 500
ErrorIntoResponse_all_500(err) ==
    Ok(Response(StatusInternalServerError, EmptyBody))

\* Responder for Error (error.rs:43-53)
ErrorIntoResponse(err) ==
    IF err.kind = "Http" THEN Ok(err.resp)
    ELSE Ok(Response(StatusInternalServerError, EmptyBody))

\* Error::into_std (error.rs:25-30): an Internal error becomes a boxed
\* std::error::Error, an Http error panics
into_std(err) == IF err.kind = "Http" THEN Panic ELSE StdError

\* the end of the closure (app.rs:179-183): or_else(into_response) on the
\* chain's result, then map(into_inner) on an Ok and map_err(into_std) on an
\* Err, which is what the transport gets
Respond(r) ==
    /\ stack[r] = <<>>
    /\ ret[r] \notin {NoResult, Panic, StdError}
    /\ LET result == IF ret[r].kind = "Ok" THEN ret[r]
                     ELSE ErrorIntoResponse(ret[r])
       IN  IF result.kind = "Ok"
           THEN /\ sent' = [sent EXCEPT ![r] = result.resp]
                /\ ret' = [ret EXCEPT ![r] = NoResult]
           ELSE /\ ret' = [ret EXCEPT ![r] = into_std(result)]
                /\ UNCHANGED sent
    /\ UNCHANGED <<apps, phase, req, stack, trace, withCalls, rejected, lock, spc, store, sid>>

-----------------------------------------------------------------------------
(* Specifications *)

Init ==
    /\ apps  = [a \in AppIds |-> AppNew]
    /\ phase = "setup"
    /\ req   = [r \in Reqs |-> NoRequest]
    /\ stack = [r \in Reqs |-> <<>>]
    /\ ret   = [r \in Reqs |-> NoResult]
    /\ sent  = [r \in Reqs |-> NoResponse]
    /\ trace = [r \in Reqs |-> <<>>]
    /\ withCalls = [a \in AppIds |-> <<>>]
    /\ rejected = NoReg
    /\ lock = 0
    /\ spc = [r \in Reqs |-> ""]
    /\ store = NoData
    /\ sid = [r \in Reqs |-> NoSid]

\* Routing: one App, routes of every shape under every method, one connection
RouterPatterns ==
    { <<Lit("hello")>>,
      <<Lit("echo"), Param("name")>>,
      <<Lit("echo"), Lit("bob")>>,
      <<Lit("static"), Catch("path")>> }

RouterPaths ==
    { Path(<<"hello">>), Path(<<"hello", "">>), Path(<<"echo", "bob">>),
      Path(<<"echo">>), Path(<<"static", "a", "b.txt">>), Path(<<"nope">>) }

NextRouter ==
    \/ \E m \in Methods, pat \in RouterPatterns : RouteMethod(Root, m, pat, "ok")
    \/ \E pat \in RouterPatterns : RouteAll(Root, pat, "ok")
    \/ Serve
    \/ \E m \in Methods, p \in RouterPaths : Dispatch(1, m, p, FALSE, "none")
    \/ CallEndpoint(1)
    \/ Respond(1)

SpecRouter == Init /\ [][NextRouter]_vars

\* Filter chains: one App with one route, every list of filters, requests
\* with and without a bearer token
ChainPaths == { Path(<<"hello">>), Path(<<"nope">>) }

NextChain ==
    \/ RouteMethod(Root, "GET", <<Lit("hello")>>, "ok")
    \/ \E f \in Filters : With(Root, f)
    \/ Serve
    \/ \E p \in ChainPaths, auth \in BOOLEAN : Dispatch(1, "GET", p, auth, "none")
    \/ ApplyFilter(1)
    \/ CallEndpoint(1)
    \/ ReturnToFilter(1)
    \/ Respond(1)

SpecChain == Init /\ [][NextChain]_vars

\* Mounting: the App "api" of examples/simple.rs:227-245 mounted in the root
\* App at /api/:version, next to routes of the root App itself
ApiPrefix == <<Lit("api"), Param("version")>>
UserPattern == <<Lit("user"), Param("name")>>

MountRootPatterns ==
    { <<Lit("hello")>>, ApiPrefix \o UserPattern }

MountApiPatterns == { UserPattern, <<Lit("check")>> }

MountPaths ==
    { Path(<<"api", "v2", "user", "bob">>), Path(<<"api", "v2", "check">>),
      Path(<<"api", "v2">>), Path(<<"api", "v2", "">>), Path(<<"hello">>) }

NextMount ==
    \/ \E pat \in MountRootPatterns : RouteMethod(Root, "GET", pat, "ok")
    \/ \E pat \in MountApiPatterns : RouteMethod("api", "GET", pat, "ok")
    \/ RouteMount(Root, ApiPrefix, "api")
    \/ \E f \in {"Log"} : With(Root, f)
    \/ \E f \in {"AuthCheck"} : With("api", f)
    \/ Serve
    \/ \E m \in {"GET", "POST"}, p \in MountPaths, auth \in BOOLEAN :
            Dispatch(1, m, p, auth, "none")
    \/ ApplyFilter(1)
    \/ CallEndpoint(1)
    \/ ReturnToFilter(1)
    \/ ReturnToMount(1)
    \/ Respond(1)

SpecMount == Init /\ [][NextMount]_vars

\* Nesting: the App "inner" mounted in "api" at /v/:name, "api" mounted in the
\* root App at /api/:version/:name; routes that capture `name` again, a
\* filter chain on every App
NestRootPrefix == <<Lit("api"), Param("version"), Param("name")>>
NestApiPrefix == <<Lit("v"), Param("name")>>
ItemPattern == <<Lit("item"), Param("name")>>

NestPaths ==
    { Path(<<"api", "v2", "a", "user", "bob">>),
      Path(<<"api", "v2", "a", "v", "b", "item", "c">>),
      Path(<<"api", "v2", "a", "v", "b", "nope">>),
      Path(<<"api", "v2", "a", "nope">>) }

NextNest ==
    \/ RouteMethod("api", "GET", UserPattern, "ok")
    \/ RouteMethod("inner", "GET", ItemPattern, "ok")
    \/ RouteMount(Root, NestRootPrefix, "api")
    \/ RouteMount("api", NestApiPrefix, "inner")
    \/ \E f \in {"Log"} : With(Root, f)
    \/ \E f \in {"A", "B"} : With("api", f)
    \/ \E f \in {"AuthCheck"} : With("inner", f)
    \/ Serve
    \/ \E p \in NestPaths, auth \in BOOLEAN : Dispatch(1, "GET", p, auth, "none")
    \/ ApplyFilter(1)
    \/ CallEndpoint(1)
    \/ ReturnToFilter(1)
    \/ ReturnToMount(1)
    \/ Respond(1)

SpecNest == Init /\ [][NextNest]_vars

\* Contexts: requests on all connections at once, through one mount to the
\* App "api" and through two to the App "inner"
CtxApiPrefix == <<Lit("api")>>
CtxInnerPrefix == <<Lit("v")>>
CheckPattern == <<Lit("check")>>

CtxPaths == { Path(<<"api", "check">>), Path(<<"api", "v", "check">>) }

NextCtx ==
    \/ RouteMethod("inner", "GET", CheckPattern, "ok")
    \/ RouteMount(Root, CtxApiPrefix, "api")
    \/ RouteMount("api", CtxInnerPrefix, "inner")
    \/ Serve
    \/ \E r \in Reqs, p \in CtxPaths : Dispatch(r, "GET", p, FALSE, "none")
    \/ \E r \in Reqs : CallEndpoint(r)
    \/ \E r \in Reqs : ReturnToMount(r)
    \/ \E r \in Reqs : Respond(r)

SpecCtx == Init /\ [][NextCtx]_vars

\* Errors: handlers that return Ok, an HTTP error or an Internal error, in
\* the root App and in a mounted App, below filters that log, fail or deny
ErrorPaths == { Path(<<"hello">>), Path(<<"api", "check">>) }

NextError ==
    \/ \E body \in {"ok", "http", "internal"} :
            RouteMethod(Root, "GET", <<Lit("hello")>>, body)
    \/ \E body \in {"http", "internal"} :
            RouteMethod("api", "GET", CheckPattern, body)
    \/ RouteMount(Root, CtxApiPrefix, "api")
    \/ \E f \in {"Log", "Session"} : With(Root, f)
    \/ \E f \in {"Log", "Deny"} : With("api", f)
    \/ Serve
    \/ \E p \in ErrorPaths, cookie \in Cookies :
            Dispatch(1, "GET", p, FALSE, cookie)
    \/ ApplyFilter(1)
    \/ CallEndpoint(1)
    \/ ReturnToFilter(1)
    \/ ReturnToMount(1)
    \/ Respond(1)

SpecError == Init /\ [][NextError]_vars

\* Registration: routes registered twice, a catch-all that is not the last
\* segment, a parameter with the name the mounts reserve
BadPattern == <<Catch("path"), Lit("x")>>
RestPattern == <<Lit("user"), Param(REST)>>

RegPatterns ==
    { <<Lit("hello")>>, <<Lit("echo"), Param("name")>>, BadPattern, RestPattern }

RegPaths ==
    { Path(<<"hello">>), Path(<<"echo", "bob">>), Path(<<"user", "bob">>),
      Path(<<"a", "x">>), Path(<<"api", "v2", "user", "bob">>) }

NextReg ==
    \/ \E pat \in RegPatterns, body \in {"ok", "http"} :
            RouteMethod(Root, "GET", pat, body)
    \/ \E pat \in RegPatterns, body \in {"ok", "http"} :
            RouteAll(Root, pat, body)
    \/ \E pat \in {UserPattern, RestPattern} : RouteMethod("api", "GET", pat, "ok")
    \/ RouteMount(Root, ApiPrefix, "api")
    \/ Serve
    \/ \E p \in RegPaths : Dispatch(1, "GET", p, FALSE, "none")
    \/ CallEndpoint(1)
    \/ ReturnToMount(1)
    \/ Respond(1)

SpecReg == Init /\ [][NextReg]_vars

\* Sessions: one SessionFilter, handlers that leave the session alone or
\* modify it, requests with and without a session cookie on every connection
NextSession ==
    \/ \E body \in {"ok", "set"} : RouteMethod(Root, "GET", <<Lit("hello")>>, body)
    \/ apps[Root].filters = <<>> /\ With(Root, "Session")
    \/ apps[Root].filters = <<"Session">> /\ With(Root, "Log")
    \/ Serve
    \/ \E r \in Reqs, cookie \in {"none", "sid", "bad"} :
            Dispatch(r, "GET", Path(<<"hello">>), FALSE, cookie)
    \/ \E r \in Reqs : SessionApply(r)
    \/ \E r \in Reqs : SessionLock(r)
    \/ \E r \in Reqs : SessionLoad(r)
    \/ \E r \in Reqs : HeadFilter(r) # "Session" /\ ApplyFilter(r)
    \/ \E r \in Reqs : CallEndpoint(r)
    \/ \E r \in Reqs : TopFilter(r) # "Session" /\ ReturnToFilter(r)
    \/ \E r \in Reqs : SessionReturn(r)
    \/ \E r \in Reqs : SessionSave(r)
    \/ \E r \in Reqs : Respond(r)

SpecSession == Init /\ [][NextSession]_vars

\* Requests no route answers: a route under POST only, GET requests for it
\* and for a path without a route, behind every list of filters
SynthPaths == { Path(<<"hello">>), Path(<<"nope">>) }

NextSynth ==
    \/ RouteMethod(Root, "POST", <<Lit("hello")>>, "ok")
    \/ \E f \in {"Log", "A", "AuthCheck"} : With(Root, f)
    \/ Serve
    \/ \E p \in SynthPaths, auth \in BOOLEAN : Dispatch(1, "GET", p, auth, "none")
    \/ ApplyFilter(1)
    \/ CallEndpoint(1)
    \/ ReturnToFilter(1)
    \/ Respond(1)

SpecSynth == Init /\ [][NextSynth]_vars

\* Parameters read by handlers: routes with and without the capture `name`,
\* in the root App and in a mounted one, behind a filter
ParamPaths ==
    { Path(<<"echo", "bob">>), Path(<<"hello">>),
      Path(<<"api", "v2", "user", "bob">>), Path(<<"api", "v2", "check">>) }

NextParam ==
    \/ \E pat \in {<<Lit("echo"), Param("name")>>, <<Lit("hello")>>} :
            RouteMethod(Root, "GET", pat, "param")
    \/ \E pat \in {UserPattern, CheckPattern} : RouteMethod("api", "GET", pat, "param")
    \/ RouteMount(Root, ApiPrefix, "api")
    \/ With(Root, "Log")
    \/ Serve
    \/ \E p \in ParamPaths : Dispatch(1, "GET", p, FALSE, "none")
    \/ ApplyFilter(1)
    \/ CallEndpoint(1)
    \/ ReturnToFilter(1)
    \/ ReturnToMount(1)
    \/ Respond(1)

SpecParam == Init /\ [][NextParam]_vars

\* Static files: the route of simple.rs:248 and every path of up to MaxParts
\* components after its prefix, normal ones, `.` and `..`
StaticPattern == <<Lit("static"), Catch("path")>>

PartNames == {"x", "secret", "resources", ".", ".."}

StaticParts == UNION {[1 .. n -> PartNames] : n \in 1 .. MaxParts}

\* Route::static_files (app.rs:75-78)
RouteStaticFiles(a, pat) == RouteMethod(a, "GET", pat, "static")

NextStatic ==
    \/ RouteStaticFiles(Root, StaticPattern)
    \/ Serve
    \/ \E parts \in StaticParts :
            Dispatch(1, "GET", Path(<<"static">> \o parts), FALSE, "none")
    \/ CallEndpoint(1)
    \/ Respond(1)

SpecStatic == Init /\ [][NextStatic]_vars

\* Static files below a mount: the static route of simple.rs:248 on the root
\* App and on an App mounted at /api or at /static
StaticMountPrefixes == { <<Lit("api")>>, <<Lit("static")>> }

StaticMountPaths ==
    { Path(<<"static", "x">>), Path(<<"api", "static", "x">>),
      Path(<<"static", "static", "x">>), Path(<<"api", "static", "secret", "..", "x">>) }

NextStaticMount ==
    \/ RouteStaticFiles(Root, StaticPattern)
    \/ RouteStaticFiles("api", StaticPattern)
    \/ \E pat \in StaticMountPrefixes : RouteMount(Root, pat, "api")
    \/ Serve
    \/ \E m \in {"GET", "POST"}, p \in StaticMountPaths :
            Dispatch(1, m, p, FALSE, "none")
    \/ CallEndpoint(1)
    \/ ReturnToMount(1)
    \/ Respond(1)

SpecStaticMount == Init /\ [][NextStaticMount]_vars

\* One trie: patterns of the three shapes that meet at the same position
TriePatterns ==
    { <<Lit("echo"), Lit("bob")>>, <<Lit("echo"), Param("name")>>,
      <<Lit("echo"), Catch("rest")>>, <<Param("any"), Lit("bob")>>,
      <<Catch("all")>> }

TriePaths ==
    { Path(<<"echo", "bob">>), Path(<<"echo", "al">>), Path(<<"x", "bob">>),
      Path(<<"echo", "a", "b">>), Path(<<"x">>) }

NextTrie ==
    \/ \E pat \in TriePatterns : RouteMethod(Root, "GET", pat, "ok")
    \/ Serve
    \/ \E p \in TriePaths : Dispatch(1, "GET", p, FALSE, "none")
    \/ CallEndpoint(1)
    \/ Respond(1)

SpecTrie == Init /\ [][NextTrie]_vars

\* The course of one request: a route of the root App, a mounted App with a
\* filter of its own, filters that pass the request on or answer it; the
\* executor runs every task that can take a step
FlowPaths == { Path(<<"hello">>), Path(<<"api", "check">>), Path(<<"nope">>) }

NextFlow ==
    \/ \E body \in {"ok", "http"} : RouteMethod(Root, "GET", <<Lit("hello")>>, body)
    \/ RouteMethod("api", "GET", CheckPattern, "ok")
    \/ RouteMount(Root, CtxApiPrefix, "api")
    \/ \E f \in {"Log", "AuthCheck"} : With(Root, f)
    \/ With("api", "A")
    \/ Serve
    \/ \E p \in FlowPaths, auth \in BOOLEAN : Dispatch(1, "GET", p, auth, "none")
    \/ ApplyFilter(1)
    \/ CallEndpoint(1)
    \/ ReturnToFilter(1)
    \/ ReturnToMount(1)
    \/ Respond(1)

SpecFlow ==
    /\ Init /\ [][NextFlow]_vars
    /\ WF_vars(ApplyFilter(1))
    /\ WF_vars(CallEndpoint(1))
    /\ WF_vars(ReturnToFilter(1))
    /\ WF_vars(ReturnToMount(1))
    /\ WF_vars(Respond(1))

\* A catch-all at the root of the all-trie, with and without a name, next to
\* a route of one method
CatchPatterns == { <<Catch("")>>, <<Catch("path")>>, <<Lit("hello")>> }

CatchPaths == { Path(<<"hello">>), Path(<<"a", "b">>), Path(<<"x">>) }

NextCatch ==
    \/ \E pat \in CatchPatterns : RouteAll(Root, pat, "ok")
    \/ \E m \in {"GET", "POST"} : RouteMethod(Root, m, <<Lit("hello")>>, "ok")
    \/ Serve
    \/ \E m \in Methods, p \in CatchPaths : Dispatch(1, m, p, FALSE, "none")
    \/ CallEndpoint(1)
    \/ Respond(1)

SpecCatch == Init /\ [][NextCatch]_vars

\* The session store: handlers that set one key or another of the session
\* and return Ok or an error, behind one SessionFilter; two connections with
\* one request each, with the session cookie or without, one after the other
\* or both at once
StorePaths == { Path(<<"a">>), Path(<<"b">>) }

StoreConns == {1, 2}

NextStore ==
    \/ RouteMethod(Root, "GET", <<Lit("a")>>, "set")
    \/ \E body \in {"set_err", "set_internal"} :
            RouteCount(Root) = 1 /\ RouteMethod(Root, "POST", <<Lit("a")>>, body)
    \/ RouteCount(Root) = 2 /\ RouteMethod(Root, "GET", <<Lit("b")>>, "set")
    \/ RouteCount(Root) = 3 /\ With(Root, "Session")
    \/ apps[Root].filters # <<>> /\ Serve
    \/ \E r \in StoreConns, m \in {"GET", "POST"}, p \in StorePaths,
          cookie \in {"none", "sid"} :
            trace[r] = <<>> /\ Dispatch(r, m, p, FALSE, cookie)
    \/ \E r \in StoreConns : SessionApply(r)
    \/ \E r \in StoreConns : SessionLock(r)
    \/ \E r \in StoreConns : SessionLoad(r)
    \/ \E r \in StoreConns : CallEndpoint(r)
    \/ \E r \in StoreConns : SessionReturn(r)
    \/ \E r \in StoreConns : SessionSave(r)
    \/ \E r \in StoreConns : Respond(r)

SpecStore == Init /\ [][NextStore]_vars

-----------------------------------------------------------------------------
(* What it means for a path to match a pattern, stated without the trie *)

SegMatches(ps, seg) ==
    \/ ps.k = "lit" /\ ps.v = seg
    \/ ps.k = "param" /\ seg # ""

Matches(pat, path) ==
    /\ path.lead
    /\ Len(pat) >= 1
    /\ IF pat[Len(pat)].k = "catch"
       THEN /\ Len(path.segs) >= Len(pat)
            /\ \A i \in 1 .. Len(pat) - 1 : SegMatches(pat[i], path.segs[i])
       ELSE /\ Len(path.segs) = Len(pat)
            /\ \A i \in 1 .. Len(pat) : SegMatches(pat[i], path.segs[i])

\* the parameters pattern `pat` takes from a path it matches
Captures(pat, path) ==
    [n \in {pat[i].v : i \in {j \in 1 .. Len(pat) : pat[j].k # "lit"}} |->
        LET i == CHOOSE j \in 1 .. Len(pat) : pat[j].k # "lit" /\ pat[j].v = n
        IN  IF pat[i].k = "param"
            THEN [lead |-> FALSE, segs |-> <<path.segs[i]>>]
            ELSE [lead |-> TRUE, segs |-> SubSeq(path.segs, i, Len(path.segs))]]

\* the lookups a request has gone through: (connection, position in trace)
Lookups ==
    UNION {{<<r, i>> : i \in {j \in 1 .. Len(trace[r]) :
                                  trace[r][j].ev = "lookup"}} : r \in Reqs}

\* for the lookup at <<r, i>>: the entries of the queried method that match,
\* those of the all-trie that match, those of the other methods that match
LkMethod(l) == req[l[1]].inner.method
LkRouter(l) == apps[trace[l[1]][l[2]].app].routes
LkResult(l) == trace[l[1]][l[2]]
OwnMatches(l) ==
    {e \in LkRouter(l).methods[LkMethod(l)] : Matches(e.pat, LkResult(l).path)}
AllMatches(l) ==
    {e \in LkRouter(l).all : Matches(e.pat, LkResult(l).path)}
OtherMatches(l) ==
    UNION {{e \in LkRouter(l).methods[k] : Matches(e.pat, LkResult(l).path)} :
              k \in Methods \ {LkMethod(l)}}

IsTarget(l, e) ==
    /\ LkResult(l).ep = e.value
    /\ Matches(e.pat, LkResult(l).path)
    /\ LkResult(l).params = Captures(e.pat, LkResult(l).path)

\* C1: lookup(M, p) returns an endpoint registered under M exactly when p
\* matches a pattern registered under M, and then it is the endpoint of a
\* matching pattern with that pattern's captures, also when the all-trie
\* matches p too.
C1_MethodMatch ==
    \A l \in Lookups :
        /\ (\E e \in LkRouter(l).methods[LkMethod(l)] : LkResult(l).ep = e.value)
              <=> OwnMatches(l) # {}
        /\ OwnMatches(l) # {} =>
              \E e \in LkRouter(l).methods[LkMethod(l)] : IsTarget(l, e)

C1_Witness ==
    \E l \in Lookups :
        /\ OwnMatches(l) # {} /\ AllMatches(l) # {}
        /\ \E e \in OwnMatches(l) : IsTarget(l, e) /\ DOMAIN LkResult(l).params # {}

\* C2: when no pattern under M matches p and a pattern of the all-trie does,
\* lookup(M, p) returns that all-handler with its captures, for every M.
C2_AllFallback ==
    \A l \in Lookups :
        (OwnMatches(l) = {} /\ AllMatches(l) # {}) =>
            \E e \in LkRouter(l).all : IsTarget(l, e)

C2_Witness ==
    \E l \in Lookups :
        /\ OwnMatches(l) = {} /\ AllMatches(l) # {}
        /\ LkMethod(l) = "DELETE"
        /\ \E e \in AllMatches(l) : IsTarget(l, e) /\ DOMAIN LkResult(l).params # {}

\* C3 as claimed: when p matches a pattern under another method and none
\* under M, lookup(M, p) returns the 405 endpoint with no parameters.
C3_Claimed ==
    \A l \in Lookups :
        (OwnMatches(l) = {} /\ OtherMatches(l) # {}) =>
            LkResult(l).ep = method_not_allowed /\ LkResult(l).params = NoParams

\* C3 amended: when p matches a pattern under another method, none under M
\* and none in the all-trie, lookup(M, p) returns the 405 endpoint with no
\* parameters.
C3_MethodNotAllowed ==
    \A l \in Lookups :
        (OwnMatches(l) = {} /\ AllMatches(l) = {} /\ OtherMatches(l) # {}) =>
            LkResult(l).ep = method_not_allowed /\ LkResult(l).params = NoParams

C3_Witness ==
    \E l \in Lookups :
        /\ OwnMatches(l) = {} /\ AllMatches(l) = {} /\ OtherMatches(l) # {}
        /\ LkResult(l).ep = method_not_allowed
        /\ LkRouter(l).all # {}

\* C4: when p matches no pattern of any method and none of the all-trie,
\* lookup(M, p) returns the 404 endpoint with no parameters.
C4_NotFound ==
    \A l \in Lookups :
        (OwnMatches(l) = {} /\ AllMatches(l) = {} /\ OtherMatches(l) = {}) =>
            LkResult(l).ep = not_found /\ LkResult(l).params = NoParams

C4_Witness ==
    \E l \in Lookups :
        /\ OwnMatches(l) = {} /\ AllMatches(l) = {} /\ OtherMatches(l) = {}
        /\ LkResult(l).ep = not_found
        /\ LkRouter(l).all # {}
        /\ \E m \in Methods : LkRouter(l).methods[m] # {}

\* C5: the precedence is method, all, 405, 404: 405 is returned only when
\* neither the queried method's trie nor the all-trie matches, 404 only when
\* nothing matches, and a path that matches the all-trie and another method's
\* trie goes to the all-handler.
C5_Precedence ==
    \A l \in Lookups :
        /\ LkResult(l).ep = method_not_allowed =>
              OwnMatches(l) = {} /\ AllMatches(l) = {}
        /\ LkResult(l).ep = not_found =>
              OwnMatches(l) = {} /\ AllMatches(l) = {} /\ OtherMatches(l) = {}
        /\ (\E e \in LkRouter(l).all : LkResult(l).ep = e.value) =>
              OwnMatches(l) = {}
        /\ (OwnMatches(l) = {} /\ AllMatches(l) # {} /\ OtherMatches(l) # {}) =>
              \E e \in AllMatches(l) : LkResult(l).ep = e.value

C5_Witness ==
    \E l \in Lookups :
        /\ OwnMatches(l) = {} /\ AllMatches(l) # {} /\ OtherMatches(l) # {}
        /\ \E e \in AllMatches(l) : LkResult(l).ep = e.value

-----------------------------------------------------------------------------
(* The filter chain *)

\* the chain of the request has returned to the dispatch closure
Returned(r) == trace[r] # <<>> /\ stack[r] = <<>>

\* what the request met in the chain of App a: filters entered and left and
\* the endpoint called, each as <<event, position, filter>>
ChainOf(r, a) ==
    LET evs == SelectSeq(trace[r],
                   LAMBDA e : e.app = a /\ e.ev \in {"pre", "post", "short", "call"})
    IN  [i \in 1 .. Len(evs) |-> <<evs[i].ev, evs[i].idx,
                                    IF evs[i].ev = "call" THEN "" ELSE evs[i].ep.arg>>]

\* F1-pre, ..., Fn-pre, endpoint, Fn-post, ..., F1-post for the filters fs
InOrder(fs) ==
    LET n == Len(fs)
    IN  [i \in 1 .. 2 * n + 1 |->
            IF i <= n THEN <<"pre", i, fs[i]>>
            ELSE IF i = n + 1 THEN <<"call", 0, "">>
            ELSE <<"post", 2 * n + 2 - i, fs[2 * n + 2 - i]>>]

ShortAt(r, a) ==
    {i \in 1 .. Len(trace[r]) : trace[r][i].app = a /\ trace[r][i].ev = "short"}

\* C6: with filters F1..Fn handed to App::with in that order, all of which
\* call next, a request meets F1-pre, ..., Fn-pre, the endpoint, Fn-post, ...,
\* F1-post; with no filter it meets the endpoint alone.
C6_FilterOrder ==
    \A r \in Reqs :
        (Returned(r) /\ ShortAt(r, Root) = {}) =>
            ChainOf(r, Root) = InOrder(withCalls[Root])

C6_Witness ==
    \E r \in Reqs :
        /\ Returned(r) /\ ShortAt(r, Root) = {}
        /\ withCalls[Root] = <<"A", "B">>
        /\ ChainOf(r, Root) = <<  <<"pre", 1, "A">>, <<"pre", 2, "B">>,
                                  <<"call", 0, "">>,
                                  <<"post", 2, "B">>, <<"post", 1, "A">> >>

\* C7: when the filter at position i returns without calling next, no filter
\* after i and no endpoint runs for the request, and the filters before i
\* get that response back from next, innermost first.
C7_ShortCircuit ==
    \A r \in Reqs : \A k \in ShortAt(r, Root) :
        LET i    == trace[r][k].idx
            resp == trace[r][k].res
            after == SubSeq(trace[r], k + 1, Len(trace[r]))
        IN  /\ \A j \in 1 .. Len(trace[r]) :
                  trace[r][j].app = Root =>
                      /\ trace[r][j].ev # "call"
                      /\ trace[r][j].ev \in {"pre", "post", "short"} =>
                            trace[r][j].idx <= i
            /\ \A j \in 1 .. Len(after) :
                  /\ after[j].ev = "post"
                  /\ after[j].idx = i - j
                  /\ after[j].res = resp
            /\ Returned(r) => Len(after) = i - 1 /\ ret[r] \in {resp, NoResult}

C7_Witness ==
    \E r \in Reqs : \E k \in ShortAt(r, Root) :
        /\ Returned(r)
        /\ trace[r][k].idx = 2
        /\ OwnMatches(<<r, 1>>) # {}
        /\ trace[r][Len(trace[r])].ev = "post"
        /\ sent[r] = trace[r][k].res.resp

\* how often the request entered the filter at position i of App a, and how
\* often it called the endpoint of App a
Entered(r, a, i) ==
    Cardinality({j \in 1 .. Len(trace[r]) :
        trace[r][j].app = a /\ trace[r][j].ev = "pre" /\ trace[r][j].idx = i})
Called(r, a) ==
    Cardinality({j \in 1 .. Len(trace[r]) :
        trace[r][j].app = a /\ trace[r][j].ev = "call"})

\* C8: a Next is used once: in one traversal of a chain every filter is
\* entered at most once and the endpoint is called at most once, also by a
\* filter written to call next again.
C8_NextOnce ==
    \A r \in Reqs : \A a \in AppIds :
        /\ Called(r, a) <= 1
        /\ \A i \in 1 .. Len(apps[a].filters) : Entered(r, a, i) <= 1

C8_Witness ==
    \E r \in Reqs :
        /\ Returned(r)
        /\ apps[Root].filters = <<"Again", "A">>
        /\ Called(r, Root) = 1
        /\ Entered(r, Root, 1) = 1 /\ Entered(r, Root, 2) = 1

-----------------------------------------------------------------------------
(* Mounted Apps *)

\* the routes of App a that mount another App
Mounts(a) == {e \in apps[a].routes.all : e.value.kind = "mount"}

\* the prefix P a mount route was registered at
PrefixOf(e) == SubSeq(e.pat, 1, Len(e.pat) - 1)

\* is the path P followed by a remainder, for the prefix P of mount route e
UnderPrefix(e, path) ==
    /\ path.lead
    /\ Len(path.segs) > Len(PrefixOf(e))
    /\ \A i \in 1 .. Len(PrefixOf(e)) : SegMatches(e.pat[i], path.segs[i])

\* the remainder of the path past the prefix of mount route e
PastPrefix(e, path) == Path(SubSeq(path.segs, Len(e.pat), Len(path.segs)))

\* the routes of the mounted App that the remainder matches under the
\* method of the request
ChildMatches(r, e) ==
    {c \in apps[e.value.arg].routes.methods[req[r].inner.method] :
        Matches(c.pat, PastPrefix(e, req[r].inner.uri))}

NoShort(r) == \A j \in 1 .. Len(trace[r]) : trace[r][j].ev # "short"

CalledEp(r, a, ep) ==
    \E j \in 1 .. Len(trace[r]) :
        trace[r][j].ev = "call" /\ trace[r][j].app = a /\ trace[r][j].ep = ep

\* C9 as claimed: a request whose path is the prefix P of a mount followed by
\* a remainder that matches a route of the child under the request's method
\* is dispatched to the child's endpoint for that route.
C9_Claimed ==
    \A r \in Reqs : \A e \in Mounts(Root) :
        (/\ Returned(r) /\ NoShort(r)
         /\ UnderPrefix(e, req[r].inner.uri)
         /\ ChildMatches(r, e) # {}) =>
            \E c \in ChildMatches(r, e) : CalledEp(r, e.value.arg, c.value)

\* C9 amended: when the parent's own lookup resolves the request to the mount
\* adapter (no route of the parent registered under the request's method
\* matches the whole path), the adapter looks the remainder past P up in the
\* child with the method of the request, and the request is dispatched to the
\* child's endpoint for the route the remainder matches.
C9_MountDispatch ==
    \A r \in Reqs : \A e \in Mounts(Root) :
        (/\ trace[r] # <<>>
         /\ trace[r][1].ep = e.value
         /\ ChildMatches(r, e) # {}) =>
            /\ UnderPrefix(e, req[r].inner.uri)
            /\ \A j \in 1 .. Len(trace[r]) :
                  (trace[r][j].ev = "lookup" /\ trace[r][j].app = e.value.arg) =>
                      /\ trace[r][j].path = PastPrefix(e, req[r].inner.uri)
                      /\ \E c \in ChildMatches(r, e) : trace[r][j].ep = c.value
            /\ (Returned(r) /\ NoShort(r)) =>
                  \E c \in ChildMatches(r, e) : CalledEp(r, e.value.arg, c.value)

C9_Witness ==
    \E r \in Reqs : \E e \in Mounts(Root) :
        /\ Returned(r) /\ NoShort(r)
        /\ trace[r][1].ep = e.value
        /\ apps[e.value.arg].filters # <<>>
        /\ \E c \in ChildMatches(r, e) :
              c.pat = UserPattern /\ CalledEp(r, e.value.arg, c.value)

\* the request /api/v2/user/bob, the child endpoint registered for
\* /user/:name in an App mounted at /api/:version, and the parameters the
\* endpoint was called with
BobUri == Path(<<"api", "v2", "user", "bob">>)

BobCalls(r) ==
    {j \in 1 .. Len(trace[r]) :
        /\ req[r].inner.uri = BobUri
        /\ trace[r][j].ev = "call"
        /\ trace[r][j].ep.kind = "handler"
        /\ \E e \in Mounts(Root) :
              /\ PrefixOf(e) = ApiPrefix
              /\ trace[r][j].app = e.value.arg
              /\ \E m \in Methods : \E c \in apps[e.value.arg].routes.methods[m] :
                    c.pat = UserPattern /\ c.value = trace[r][j].ep}

\* C10 as claimed: the child endpoint is reached with the parameters
\* {version: "v2", name: "bob"} and no other key.
C10_Claimed ==
    \A r \in Reqs : \A j \in BobCalls(r) :
        /\ DOMAIN trace[r][j].params = {"version", "name"}
        /\ trace[r][j].params["version"] = Word("v2")
        /\ trace[r][j].params["name"] = Word("bob")

\* C10 amended: the child endpoint is reached with version: "v2" and
\* name: "bob" and, as the third and last key, the reserved parameter
\* "-highnoon-path-rest-" holding the remainder "/user/bob".
C10_MergedParams ==
    \A r \in Reqs :
        /\ \A j \in BobCalls(r) :
              /\ DOMAIN trace[r][j].params = {"version", "name", REST}
              /\ trace[r][j].params["version"] = Word("v2")
              /\ trace[r][j].params["name"] = Word("bob")
              /\ trace[r][j].params[REST] = Path(<<"user", "bob">>)
              /\ req[r].params = trace[r][j].params
        /\ \A e \in Mounts(Root) :
              (/\ Returned(r) /\ NoShort(r)
               /\ req[r].inner.uri = BobUri
               /\ PrefixOf(e) = ApiPrefix
               /\ trace[r][1].ep = e.value
               /\ ChildMatches(r, e) # {}) => BobCalls(r) # {}

C10_Witness ==
    \E r \in Reqs : \E j \in BobCalls(r) :
        /\ Returned(r)
        /\ req[r].inner.method = "GET"
        /\ trace[r][j].params =
              [n \in {"version", "name", REST} |->
                  IF n = "version" THEN Word("v2")
                  ELSE IF n = "name" THEN Word("bob")
                  ELSE Path(<<"user", "bob">>)]

-----------------------------------------------------------------------------
(* Parameters across a mount *)

\* the mount boundaries a request has crossed: the positions in its trace of
\* the lookups made by a MountedApp::call; the event before is the call of
\* the adapter with the outer parameters, the event after the request made
\* for the inner App
Crossings(r) ==
    {j \in 2 .. Len(trace[r]) - 1 :
        /\ trace[r][j].ev = "lookup"
        /\ trace[r][j - 1].ev = "call" /\ trace[r][j - 1].ep.kind = "mount"
        /\ trace[r][j + 1].ev = "into"}

OuterParams(r, j)  == trace[r][j - 1].params
ChildParams(r, j)  == trace[r][j].params
MergedParams(r, j) == trace[r][j + 1].params

\* C11: in the merged parameter set every name the child's match captured
\* holds the child's value, every other name of the outer set keeps its outer
\* value, and there is no further name.
C11_ChildWins ==
    \A r \in Reqs : \A j \in Crossings(r) :
        /\ DOMAIN MergedParams(r, j) =
              (DOMAIN OuterParams(r, j)) \cup (DOMAIN ChildParams(r, j))
        /\ \A k \in DOMAIN ChildParams(r, j) :
              MergedParams(r, j)[k] = ChildParams(r, j)[k]
        /\ \A k \in (DOMAIN OuterParams(r, j)) \ (DOMAIN ChildParams(r, j)) :
              MergedParams(r, j)[k] = OuterParams(r, j)[k]

C11_Witness ==
    \E r \in Reqs : \E j \in Crossings(r) :
        /\ OuterParams(r, j)["name"] = Word("a")
        /\ OuterParams(r, j)["version"] = Word("v2")
        /\ "name" \in DOMAIN ChildParams(r, j)
        /\ "version" \notin DOMAIN ChildParams(r, j)
        /\ MergedParams(r, j)["name"] = Word("bob")
        /\ MergedParams(r, j)["version"] = Word("v2")

-----------------------------------------------------------------------------
(* Filter chains across a mount *)

\* the Apps a request has gone through: the root App, then the App behind
\* every mount adapter it called
AppPath(r) ==
    LET calls == SelectSeq(trace[r],
                     LAMBDA e : e.ev = "call" /\ e.ep.kind = "mount")
    IN  <<Root>> \o [i \in 1 .. Len(calls) |-> calls[i].ep.arg]

\* what the request met in the chains of all Apps, in order: filters entered
\* and left as <<event, App, position, filter>>, endpoints called as
\* <<"call", App, 0, "mount">> for an adapter and <<"call", App, 0, "end">>
\* for any other endpoint
ChainEvents(r) ==
    LET evs == SelectSeq(trace[r],
                   LAMBDA e : e.ev \in {"pre", "post", "short", "call"})
    IN  [i \in 1 .. Len(evs) |->
            <<evs[i].ev, evs[i].app, evs[i].idx,
              IF evs[i].ev # "call" THEN evs[i].ep.arg
              ELSE IF evs[i].ep.kind = "mount" THEN "mount" ELSE "end">>]

\* has the request reached the endpoint its last lookup resolved
Reached(r) ==
    \E j \in 1 .. Len(trace[r]) :
        trace[r][j].ev = "call" /\ trace[r][j].ep.kind # "mount"

\* pre-phases of the filters of App a in the order of the App::with calls,
\* and post-phases in the reverse order
PreOf(a) == [i \in 1 .. Len(withCalls[a]) |-> <<"pre", a, i, withCalls[a][i]>>]
PostOf(a) ==
    LET n == Len(withCalls[a])
    IN  [i \in 1 .. n |-> <<"post", a, n + 1 - i, withCalls[a][n + 1 - i]>>]

\* outer-pre*, adapter, child-pre*, ..., endpoint for the Apps path[i..]
RECURSIVE Down(_, _)
Down(path, i) ==
    IF i > Len(path) THEN <<>>
    ELSE PreOf(path[i])
         \o << <<"call", path[i], 0, IF i < Len(path) THEN "mount" ELSE "end">> >>
         \o Down(path, i + 1)

\* child-post*, ..., outer-post* for the Apps path[1..i]
RECURSIVE Up(_, _)
Up(path, i) ==
    IF i = 0 THEN <<>> ELSE PostOf(path[i]) \o Up(path, i - 1)

IsPrefix(s, t) == Len(s) <= Len(t) /\ s = SubSeq(t, 1, Len(s))

\* C12: a request that goes through a mount to the endpoint the child
\* resolved has met, in this order, the pre-phase of every outer filter, the
\* pre-phase of every filter of the child in the order the child registered
\* them, the child's endpoint, and from then on the post-phases of the
\* child's filters followed by those of the outer filters, all of them once
\* the chain has returned.
C12_MountedChain ==
    \A r \in Reqs :
        (Reached(r) /\ Len(AppPath(r)) > 1) =>
            LET path == AppPath(r)
                down == Down(path, 1)
                full == down \o Up(path, Len(path))
            IN  /\ IsPrefix(down, ChainEvents(r))
                /\ IsPrefix(ChainEvents(r), full)
                /\ Returned(r) => ChainEvents(r) = full

C12_Witness ==
    \E r \in Reqs :
        /\ Returned(r)
        /\ withCalls[Root] = <<"Log">> /\ withCalls["api"] = <<"A", "B">>
        /\ ChainEvents(r) =
              << <<"pre", Root, 1, "Log">>, <<"call", Root, 0, "mount">>,
                 <<"pre", "api", 1, "A">>, <<"pre", "api", 2, "B">>,
                 <<"call", "api", 0, "end">>,
                 <<"post", "api", 2, "B">>, <<"post", "api", 1, "A">>,
                 <<"post", Root, 1, "Log">> >>

-----------------------------------------------------------------------------
(* Contexts *)

CountEvents(r, ev) ==
    Cardinality({j \in 1 .. Len(trace[r]) : trace[r][j].ev = ev})

\* C13: a request in flight holds a context that the State of the root App
\* made in the one new_context call of its dispatch, converted once at every
\* mount boundary the request has crossed, in the order it crossed them, and
\* by nothing else: no State of a mounted App made it; and no two requests in
\* flight hold the same context.
C13_Contexts ==
    /\ \A r \in Reqs :
          InFlight(r) =>
              /\ CountEvents(r, "new_context") = 1
              /\ \A j \in 1 .. Len(trace[r]) :
                    trace[r][j].ev = "new_context" => trace[r][j].app = Root
              /\ req[r].context.by = Root
              /\ CountEvents(r, "into") = Len(AppPath(r)) - 1
              /\ req[r].context.into = Tail(AppPath(r))
    /\ \A r \in Reqs : \A q \in Reqs \ {r} :
          (InFlight(r) /\ InFlight(q)) => req[r].context.id # req[q].context.id

C13_Witness ==
    \E r \in Reqs : \E q \in Reqs \ {r} :
        /\ InFlight(r) /\ InFlight(q)
        /\ req[r].context.into = <<"api", "inner">>
        /\ req[q].context.into = <<"api">>
        /\ req[r].context.by = Root /\ req[q].context.by = Root
        /\ req[r].context.id # req[q].context.id

-----------------------------------------------------------------------------
(* Nested mounts *)

\* the number of path segments covered by the prefixes of the mounts the
\* request crossed before position j of its trace
RECURSIVE Skipped(_, _)
Skipped(r, j) ==
    IF j <= 1 THEN 0
    ELSE Skipped(r, j - 1) +
         (IF trace[r][j - 1].ev = "call" /\ trace[r][j - 1].ep.kind = "mount"
          THEN Len(trace[r][j - 1].ep.id[3]) - 1 ELSE 0)

\* the positions in the trace of the lookups made up to position j
LookupsUpTo(r, j) == {i \in 1 .. j : trace[r][i].ev = "lookup"}

\* the value of name k after the lookups up to position j: the capture of the
\* innermost lookup that captured k
Innermost(r, j, k) ==
    LET with == {i \in LookupsUpTo(r, j) : k \in DOMAIN trace[r][i].params}
        last == CHOOSE i \in with : \A i2 \in with : i2 <= i
    IN  trace[r][last].params[k]

\* C14: at every depth of mounting the lookup of the inner App runs on the
\* path that remains past the prefixes of all the mounts crossed so far, the
\* endpoint is called with the parameters of all levels, each name holding
\* the capture of the innermost level that captured it, and a request that
\* went through parent, child and grandchild met their chains in that order.
C14_Nested ==
    \A r \in Reqs :
        /\ \A j \in Crossings(r) :
              trace[r][j].path =
                  Path(SubSeqFrom(req[r].inner.uri.segs, Skipped(r, j) + 1))
        /\ \A j \in 1 .. Len(trace[r]) :
              trace[r][j].ev = "call" =>
                  /\ DOMAIN trace[r][j].params =
                        UNION {DOMAIN trace[r][i].params : i \in LookupsUpTo(r, j)}
                  /\ \A k \in DOMAIN trace[r][j].params :
                        trace[r][j].params[k] = Innermost(r, j, k)
        /\ (Returned(r) /\ Reached(r) /\ Len(AppPath(r)) = 3) =>
              ChainEvents(r) = Down(AppPath(r), 1) \o Up(AppPath(r), 3)

C14_Witness ==
    \E r \in Reqs : \E j \in Crossings(r) :
        /\ Returned(r) /\ Reached(r)
        /\ AppPath(r) = <<Root, "api", "inner">>
        /\ \A a \in {Root, "api", "inner"} : withCalls[a] # <<>>
        /\ trace[r][j].app = "inner"
        /\ trace[r][j].path = Path(<<"item", "c">>)
        /\ \E i \in Crossings(r) :
              /\ trace[r][i].app = "api"
              /\ trace[r][i].path = Path(<<"v", "b", "item", "c">>)
        /\ req[r].params =
              [n \in {"version", "name", REST} |->
                  IF n = "version" THEN Word("v2")
                  ELSE IF n = "name" THEN Word("c")
                  ELSE Path(<<"item", "c">>)]

-----------------------------------------------------------------------------
(* Errors *)

\* the positions in the trace where an endpoint or a filter failed: a handler
\* that returns an error was called, or a filter returned an error without
\* calling next
RaisedAt(r) ==
    {j \in 1 .. Len(trace[r]) :
        \/ trace[r][j].ev = "short" /\ trace[r][j].res.kind \in {"Http", "Internal"}
        \/ /\ trace[r][j].ev = "call" /\ trace[r][j].ep.kind = "handler"
           /\ trace[r][j].ep.arg \in {"http", "internal"}}

\* the error raised there
Raised(r, j) ==
    IF trace[r][j].ev = "short" THEN trace[r][j].res
    ELSE IF trace[r][j].ep.arg = "http"
         THEN ErrHttp(Response(StatusBadRequest, trace[r][j].ep.id))
         ELSE ErrInternal

\* has the dispatch closure made the response of the request
Responded(r) == trace[r] # <<>> /\ sent[r] # NoResponse

\* C15: when an endpoint or a filter fails with the HTTP error carrying
\* response resp, every filter above it gets that error back, the chain
\* returns it, and the response sent is resp, status and body.
C15_HttpError ==
    \A r \in Reqs : \A j \in RaisedAt(r) :
        Raised(r, j).kind = "Http" =>
            /\ \A i \in j + 1 .. Len(trace[r]) :
                  trace[r][i].ev = "post" /\ trace[r][i].res = Raised(r, j)
            /\ (Returned(r) /\ ~Responded(r)) => ret[r] = Raised(r, j)
            /\ Responded(r) => sent[r] = Raised(r, j).resp

C15_Witness ==
    \E r \in Reqs : \E j \in RaisedAt(r) :
        /\ Responded(r)
        /\ trace[r][j].ev = "call" /\ trace[r][j].app = "api"
        /\ withCalls[Root] = <<"Log", "Session">> /\ withCalls["api"] = <<"Log">>
        /\ sent[r] = Response(StatusBadRequest, <<"api", "GET", CheckPattern>>)

\* C16: an Internal error raised by an endpoint or a filter, also in a
\* mounted App, stays that error in every filter above and through the mount
\* adapter until the chain has returned to the dispatch, and the response
\* made there is a 500 with an empty body.
C16_InternalError ==
    \A r \in Reqs : \A j \in RaisedAt(r) :
        Raised(r, j).kind = "Internal" =>
            /\ \A i \in j + 1 .. Len(trace[r]) :
                  trace[r][i].ev = "post" /\ trace[r][i].res = ErrInternal
            /\ ~Responded(r) => ret[r] = ErrInternal
            /\ Responded(r) =>
                  /\ Returned(r)
                  /\ sent[r] = Response(StatusInternalServerError, EmptyBody)

C16_Witness ==
    \E r \in Reqs : \E j \in RaisedAt(r) :
        /\ Responded(r)
        /\ trace[r][j].ev = "call" /\ trace[r][j].app = "api"
        /\ trace[r][j].ep.arg = "internal"
        /\ withCalls[Root] = <<"Log">> /\ withCalls["api"] = <<"Log">>
        /\ sent[r] = Response(StatusInternalServerError, EmptyBody)

\* the post-phases of the built-in filters: positions in the trace where Log
\* or Session got a result back from next
BuiltinPosts(r) ==
    {j \in 1 .. Len(trace[r]) :
        trace[r][j].ev = "post" /\ trace[r][j].ep.arg \in {"Log", "Session"}}

\* what the filter at position j of the trace returned: what the caller above
\* it got
ReturnedBy(r, j) ==
    IF j < Len(trace[r]) THEN trace[r][j + 1].res ELSE ret[r]

\* C17: Log returns whatever next returned to it, Ok, Http error or Internal
\* error, and Session returns an error that next returned to it as that error.
C17_NoSwallow ==
    \A r \in Reqs : \A j \in BuiltinPosts(r) :
        (j < Len(trace[r]) \/ ~Responded(r)) =>
            /\ trace[r][j].ep.arg = "Log" => ReturnedBy(r, j) = trace[r][j].res
            /\ trace[r][j].res.kind # "Ok" => ReturnedBy(r, j) = trace[r][j].res

C17_Witness ==
    \E r \in Reqs : \E j \in BuiltinPosts(r) : \E i \in BuiltinPosts(r) :
        /\ trace[r][j].ep.arg = "Session" /\ trace[r][i].ep.arg = "Log"
        /\ i < j /\ j = Len(trace[r])
        /\ trace[r][i].res = ErrInternal /\ trace[r][j].res = ErrInternal
        /\ ret[r] = ErrInternal

-----------------------------------------------------------------------------
(* Registration *)

Tables == Methods \cup {"ALL"}

\* the trie of App a for a method, or its all-trie
Trie(a, table) ==
    IF table = "ALL" THEN apps[a].routes.all ELSE apps[a].routes.methods[table]

\* was the rejected registration one for a pattern its trie held already
RejectedDuplicate ==
    /\ rejected # NoReg
    /\ \E e \in Trie(rejected.app, rejected.table) : e.pat = rejected.pat

\* C18: a step never takes away or replaces the endpoint of a registered
\* (method, pattern) and never adds a second entry for a pattern its trie
\* holds; registering a (method, pattern) again fails: the registration
\* panics and the tries stay as they were.
C18_DuplicateRejected ==
    [][ /\ \A a \in AppIds : \A m \in Methods :
              /\ \A e \in apps[a].routes.methods[m] :
                    e \in apps'[a].routes.methods[m]
              /\ \A e \in apps'[a].routes.methods[m] \ apps[a].routes.methods[m] :
                    \A x \in apps[a].routes.methods[m] : x.pat # e.pat
        /\ \A a \in AppIds :
              /\ \A e \in apps[a].routes.all : e \in apps'[a].routes.all
              /\ \A e \in apps'[a].routes.all \ apps[a].routes.all :
                    \A x \in apps[a].routes.all : x.pat # e.pat
        /\ \A pat \in RegPatterns, body \in {"ok", "http"} :
              /\ (RouteMethod(Root, "GET", pat, body)
                    /\ \E x \in Trie(Root, "GET") : x.pat = pat) =>
                        /\ phase' = "panicked" /\ apps' = apps
                        /\ rejected' = Reg(Root, "GET", pat,
                                           Handler(Root, "GET", pat, body))
              /\ (RouteAll(Root, pat, body)
                    /\ \E x \in Trie(Root, "ALL") : x.pat = pat) =>
                        /\ phase' = "panicked" /\ apps' = apps
                        /\ rejected' = Reg(Root, "ALL", pat,
                                           Handler(Root, "ALL", pat, body))
      ]_vars

C18_Witness ==
    /\ RejectedDuplicate
    /\ phase = "panicked"
    /\ rejected.table = "GET"
    /\ \E e \in Trie(rejected.app, rejected.table) :
          e.pat = rejected.pat /\ e.value # rejected.ep /\ e.value.arg = "ok"

\* a catch-all segment only as the last segment of the pattern
CatchAllLast(pat) ==
    \A i \in 1 .. Len(pat) : pat[i].k = "catch" => i = Len(pat)

\* C19: a pattern with a catch-all that is not its last segment is never in a
\* trie: registering it panics, before any request is served; and at request
\* time every lookup returns a target (a handler, a mount, 405 or 404) and no
\* request ends in a panic.
C19_InvalidRejected ==
    /\ \A a \in AppIds, table \in Tables :
          \A e \in Trie(a, table) : CatchAllLast(e.pat)
    /\ (rejected # NoReg) <=> (phase = "panicked")
    /\ phase = "panicked" => \A r \in Reqs : trace[r] = <<>> /\ ret[r] = NoResult
    /\ \A r \in Reqs :
          /\ ret[r] # Panic
          /\ \A j \in 1 .. Len(trace[r]) :
                trace[r][j].ev = "lookup" =>
                    trace[r][j].ep.kind \in
                        {"handler", "mount", "not_found", "method_not_allowed"}

C19_Witness ==
    /\ rejected # NoReg
    /\ ~CatchAllLast(rejected.pat)
    /\ phase = "panicked"
    /\ \E table \in Tables : Trie(Root, table) # {}

\* the handler routes whose pattern declares a parameter or catch-all with the
\* name the mounts reserve
ReservedRoutes ==
    {e \in UNION {Trie(a, table) : a \in AppIds, table \in Tables} :
        /\ e.value.kind = "handler"
        /\ \E i \in 1 .. Len(e.pat) : e.pat[i].k # "lit" /\ e.pat[i].v = REST}

\* C20: no handler route that declares a parameter with the reserved name is
\* ever registered, and the reserved parameter an endpoint of a mounted App
\* is called with is the rest path of the mount (it starts with a slash),
\* never a capture of a user route.
C20_Claimed ==
    /\ ReservedRoutes = {}
    /\ \A r \in Reqs : \A j \in 1 .. Len(trace[r]) :
          (/\ trace[r][j].ev = "call"
           /\ trace[r][j].app # Root
           /\ REST \in DOMAIN trace[r][j].params) =>
              trace[r][j].params[REST].lead

-----------------------------------------------------------------------------
(* The frozen App *)

\* C21: once the App serves, no step changes the routes or the filters of
\* any App, none registers a filter, none is a registration that fails, and
\* the App stays serving: the tables are those of the moment it was frozen.
C21_Frozen ==
    [][ phase = "serving" =>
            /\ apps' = apps
            /\ withCalls' = withCalls
            /\ rejected' = rejected
            /\ phase' = "serving" ]_vars

C21_Witness ==
    /\ phase = "serving"
    /\ sent[1] # NoResponse
    /\ apps[Root].filters # <<>>
    /\ Entries(Root) # {}
    /\ Len(apps[Root].filters) < MaxFilters

-----------------------------------------------------------------------------
(* The states of a request *)

\* the events of request r that the root App produced: filters entered,
\* endpoint called, filters that answered without calling next
RootEvents(r, ev) ==
    {j \in 1 .. Len(trace[r]) : trace[r][j].ev = ev /\ trace[r][j].app = Root}

\* the state of the request on connection r, as seen at the top level: a
\* mounted App does its work inside the endpoint call of the root App
ReqState(r) ==
    IF trace[r] = <<>> THEN "Received"
    ELSE IF ret[r] = Panic THEN "Failed"
    ELSE IF stack[r] = <<>> /\ ret[r] = NoResult THEN "Responded"
    ELSE IF RootEvents(r, "call") # {} THEN "Dispatched"
    ELSE IF RootEvents(r, "pre") # {} THEN "Filtering"
    ELSE "Routed"

ReqRank(r) ==
    CASE ReqState(r) = "Received"   -> 0
      [] ReqState(r) = "Routed"     -> 1
      [] ReqState(r) = "Filtering"  -> 1 + Cardinality(RootEvents(r, "pre"))
      [] ReqState(r) = "Dispatched" -> Len(apps[Root].filters) + 2
      [] OTHER                      -> Len(apps[Root].filters) + 3

ReqTerminal(r) == ReqState(r) \in {"Responded", "Failed"}

\* the step takes a new request from connection r
NewRequest(r) == stack[r] = <<>> /\ stack'[r] # <<>>

\* what the request has left behind is in the order of the states: the
\* lookup first, the filters of the root App in their order, then at most
\* one endpoint call, after all of them
ReqOrdered(r) ==
    /\ trace[r] # <<>> =>
          trace[r][1].ev = "lookup" /\ trace[r][1].app = Root
    /\ \A j \in RootEvents(r, "pre") :
          /\ trace[r][j].idx = Cardinality({i \in RootEvents(r, "pre") : i <= j})
          /\ \A c \in RootEvents(r, "call") : j < c
    /\ Cardinality(RootEvents(r, "call")) <= 1

\* every state moves on or stays, a terminal state stays until the
\* connection hands over a new request
ReqForward(r) ==
    /\ ~NewRequest(r) => ReqRank(r)' >= ReqRank(r)
    /\ (ReqTerminal(r) /\ ~NewRequest(r)) =>
          UNCHANGED <<req[r], stack[r], ret[r], sent[r], trace[r]>>

\* C22 as stated: a request that has reached Responded or Failed has been
\* Dispatched, the endpoint the root lookup resolved has been called.
C22_Claimed ==
    \A r \in Reqs : ReqTerminal(r) => RootEvents(r, "call") # {}

\* C22: a request goes from Received to Routed, through the filters of the
\* root App in their order, to Dispatched unless one of these filters
\* returns without calling next, and then to Responded or Failed; it never
\* goes back, Responded and Failed are left only by a new request, and every
\* request that has been routed reaches one of the two.
C22_StateMachine ==
    /\ [](\A r \in Reqs :
            /\ ReqOrdered(r)
            /\ ReqTerminal(r) =>
                  \/ RootEvents(r, "call") # {}
                  \/ RootEvents(r, "short") # {})
    /\ [][\A r \in Reqs : ReqForward(r)]_vars
    /\ \A r \in Reqs : (~ReqTerminal(r) /\ ReqState(r) # "Received") ~> ReqTerminal(r)

C22_Witness ==
    /\ ReqState(1) = "Responded"
    /\ Cardinality(RootEvents(1, "pre")) = MaxFilters
    /\ RootEvents(1, "call") # {}
    /\ \E j \in 1 .. Len(trace[1]) : trace[1][j].ev = "pre" /\ trace[1][j].app = "api"

-----------------------------------------------------------------------------
(* Patterns and captures *)

\* does the pattern, from its segment i on, match the segments of the path
\* from segment i on
RECURSIVE PatMatches(_, _, _)
PatMatches(pat, segs, i) ==
    IF i > Len(pat) THEN i > Len(segs)
    ELSE IF i > Len(segs) THEN FALSE
    ELSE CASE pat[i].k = "catch" -> i = Len(pat)
           [] pat[i].k = "param" -> segs[i] # "" /\ PatMatches(pat, segs, i + 1)
           [] OTHER -> pat[i].v = segs[i] /\ PatMatches(pat, segs, i + 1)

KindRank(k) == CASE k = "lit" -> 3 [] k = "param" -> 2 [] OTHER -> 1

\* the first position at which two patterns differ
FirstDiff(p, q) ==
    CHOOSE i \in 1 .. Len(p) + 1 :
        /\ (i > Len(p) \/ i > Len(q) \/ p[i] # q[i])
        /\ \A k \in 1 .. i - 1 : k <= Len(q) /\ p[k] = q[k]

\* p goes before q: where they first differ p has the literal against a
\* capture, or the `:name` against the catch-all
Preferred(p, q) ==
    LET i == FirstDiff(p, q)
    IN  i <= Len(p) /\ i <= Len(q) /\ KindRank(p[i].k) > KindRank(q[i].k)

\* the entries of the GET trie of the root App whose pattern matches the path
Matching(path) ==
    {e \in apps[Root].routes.methods["GET"] :
        path.lead /\ PatMatches(e.pat, path.segs, 1)}

CaptureNames(pat) == {pat[i].v : i \in {k \in 1 .. Len(pat) : pat[k].k # "lit"}}

\* the lookups of request r that resolved to a registered route
RouteLookups(r) ==
    {j \in 1 .. Len(trace[r]) :
        trace[r][j].ev = "lookup" /\ trace[r][j].ep.kind = "handler"}

\* C24 as stated: a `:name` captures the one segment at its position, a
\* trailing `*name` the rest of the path without a leading slash
\* ("a/b.txt"), and the parameter set has one entry per capture.
C24_Claimed ==
    \A r \in Reqs : \A j \in RouteLookups(r) :
        LET pat  == trace[r][j].ep.id[3]
            segs == trace[r][j].path.segs
            ps   == trace[r][j].params
        IN  /\ DOMAIN ps = CaptureNames(pat)
            /\ \A i \in 1 .. Len(pat) :
                  /\ pat[i].k = "param" => ps[pat[i].v] = Word(segs[i])
                  /\ pat[i].k = "catch" =>
                        ps[pat[i].v] = [lead |-> FALSE, segs |-> SubSeqFrom(segs, i)]

\* C24: a `:name` captures exactly the one segment at its position, a
\* trailing `*name` captures the rest of the path from the slash before its
\* position on, that slash included ("/a/b.txt"), and the parameter set has
\* one entry per capture name of the pattern matched.
C24_Captures ==
    \A r \in Reqs : \A j \in RouteLookups(r) :
        LET pat  == trace[r][j].ep.id[3]
            segs == trace[r][j].path.segs
            ps   == trace[r][j].params
        IN  /\ DOMAIN ps = CaptureNames(pat)
            /\ \A i \in 1 .. Len(pat) :
                  /\ pat[i].k = "param" => ps[pat[i].v] = Word(segs[i])
                  /\ pat[i].k = "catch" =>
                        ps[pat[i].v] = [lead |-> TRUE, segs |-> SubSeqFrom(segs, i)]

C24_Witness ==
    /\ \E j \in RouteLookups(1) :
          /\ trace[1][j].ep.id[3] = <<Lit("static"), Catch("path")>>
          /\ trace[1][j].params = [n \in {"path"} |-> Path(<<"a", "b.txt">>)]
    /\ sent[1] # NoResponse

-----------------------------------------------------------------------------
(* The session store *)

\* the connections whose task has an operation on the store in progress
StoreOps == {r \in Reqs : spc[r] \in {"load_op", "save_op"}}

\* C25: at most one operation on the store is in progress at any time, and
\* the task it belongs to is the one that holds the lock.
C25_StoreExclusive ==
    /\ Cardinality(StoreOps) <= 1
    /\ \A r \in StoreOps : lock = r

C25_Witness ==
    /\ spc[1] = "save_op"
    /\ spc[2] = "load_wait"
    /\ lock = 1

\* the rest of the chain of connection r runs below its SessionFilter:
\* next.next(req) has been called by the filter and has not returned to it
ChainBelowSession(r) ==
    \E i \in 1 .. Len(stack[r]) - 1 :
        stack[r][i].kind = "filter" /\ stack[r][i].name = "Session"

\* connection r has been through the load phase with a session cookie and is
\* about to run its endpoint
AtEndpoint(r) ==
    /\ ChainBelowSession(r)
    /\ req[r].inner.cookie = "sid"
    /\ Top(r).kind = "next" /\ HeadFilter(r) = ""

\* C26: the lock is held only while an operation on the store is in
\* progress: never by a request whose chain runs below the filter, so a
\* request that waits for the lock waits for a get or a set of another
\* request, not for its handler.
C26_LockPerOperation ==
    \A r \in Reqs :
        /\ lock = r => spc[r] \in {"load_op", "save_op"}
        /\ ChainBelowSession(r) => lock # r /\ spc[r] = ""
        /\ spc[r] \in {"load_wait", "save_wait"} =>
              \A q \in Reqs : lock = q => (TopFilter(q) = "Session" /\ q # r)

C26_Witness ==
    /\ AtEndpoint(1) /\ AtEndpoint(2)
    /\ lock = 0

-----------------------------------------------------------------------------
(* A request alone *)

\* what the chain of App a returns for a request that nothing runs beside:
\* the filters left, then the endpoint, a mounted App with its own chain
RECURSIVE ChainResult(_, _, _, _)
ChainResult(a, ep, rest, request) ==
    IF rest # <<>>
    THEN IF CallsNext(Head(rest), request)
         THEN FilterPost(Head(rest), ChainResult(a, ep, Tail(rest), request))
         ELSE ShortCircuit(Head(rest))
    ELSE CASE ep.kind = "handler" -> HandlerResult(ep, request)
           [] ep.kind = "not_found" -> Ok(Response(StatusNotFound, EmptyBody))
           [] ep.kind = "method_not_allowed" ->
                  Ok(Response(StatusMethodNotAllowed, EmptyBody))
           [] ep.kind = "mount" ->
                  IF REST \notin DOMAIN request.params THEN Panic
                  ELSE LET c == MountedAppCall(ep.arg, request)
                       IN  ChainResult(ep.arg, c.target.ep,
                                       apps[ep.arg].filters, c.req2)

\* the target and the response of a GET request for `uri` that runs alone
AloneTarget(uri) == lookup(apps[Root].routes, "GET", uri)

AloneResponse(uri) ==
    LET t   == AloneTarget(uri)
        res == ChainResult(Root, t.ep, apps[Root].filters,
                   RequestNew(Root, Inner("GET", uri, FALSE, "none"), t.params,
                              NoContext))
    IN  IF res.kind = "Ok" THEN res.resp ELSE ErrorIntoResponse(res).resp

\* the last endpoint call of request r
LastCall(r) ==
    LET calls == {j \in 1 .. Len(trace[r]) : trace[r][j].ev = "call"}
    IN  CHOOSE j \in calls : \A k \in calls : k <= j

-----------------------------------------------------------------------------
(* 404 and 405 *)

\* what request r has met after its dispatch, each event as
\* <<kind, position of the filter, name of the filter>>
Met(r) ==
    [i \in 1 .. Len(trace[r]) - 2 |->
        <<trace[r][i + 2].ev, trace[r][i + 2].idx, trace[r][i + 2].ep.arg>>]

\* every filter before, the endpoint, every filter after, last one first
WholeChain(fs) ==
    [i \in 1 .. 2 * Len(fs) + 1 |->
        IF i <= Len(fs) THEN <<"pre", i, fs[i]>>
        ELSE IF i = Len(fs) + 1 THEN <<"call", 0, "">>
        ELSE <<"post", 2 * Len(fs) + 2 - i, fs[2 * Len(fs) + 2 - i]>>]

\* the filters up to the one at position k, which answers itself, and the
\* filters before it after
StoppedAt(fs, k) ==
    [i \in 1 .. 2 * k |->
        IF i <= k THEN <<"pre", i, fs[i]>>
        ELSE IF i = k + 1 THEN <<"short", k, fs[k]>>
        ELSE <<"post", 2 * k + 1 - i, fs[2 * k + 1 - i]>>]

SyntheticStatus(ep) ==
    IF ep = not_found THEN StatusNotFound ELSE StatusMethodNotAllowed

\* C28: a request that resolves to the not_found or method_not_allowed
\* endpoint gets the Next over all the filters of the App: answered, it has
\* met every filter in order, then the synthetic endpoint, then every filter
\* in reverse, each of them being returned the endpoint's status-only
\* response, which is the response sent; unless a filter answered it
\* itself, after the filters before that one.
C28_Synthetic ==
    \A r \in Reqs :
        (/\ trace[r] # <<>>
         /\ trace[r][1].ep \in {not_found, method_not_allowed}
         /\ sent[r] # NoResponse) =>
            LET fs == apps[Root].filters
                status == SyntheticStatus(trace[r][1].ep)
            IN  \/ /\ Met(r) = WholeChain(fs)
                   /\ trace[r][Len(fs) + 3].ep = trace[r][1].ep
                   /\ \A j \in 1 .. Len(trace[r]) :
                         trace[r][j].ev = "post" =>
                             trace[r][j].res = Ok(Response(status, EmptyBody))
                   /\ sent[r] = Response(status, EmptyBody)
                \/ \E k \in 1 .. Len(fs) :
                      /\ Met(r) = StoppedAt(fs, k)
                      /\ ~CallsNext(fs[k], req[r])
                      /\ sent[r] = ShortCircuit(fs[k]).resp

C28_Witness ==
    /\ trace[1] # <<>>
    /\ trace[1][1].ep = method_not_allowed
    /\ Len(apps[Root].filters) = MaxFilters
    /\ Met(1) = WholeChain(apps[Root].filters)
    /\ sent[1] = Response(StatusMethodNotAllowed, EmptyBody)

-----------------------------------------------------------------------------
(* Request::param *)

\* the calls of request r to a handler that reads the parameter `name`
ParamCalls(r) ==
    {j \in 1 .. Len(trace[r]) :
        trace[r][j].ev = "call" /\ trace[r][j].ep.arg = "param"}

\* C29: a handler that returns req.param("name")? gets the captured value
\* when the parameters of its request have `name`, and the client gets it;
\* otherwise every filter above the handler is returned an HTTP error
\* carrying 400 Bad Request, not an Internal error, and the client gets the
\* 400 with an empty body.
C29_Param ==
    \A r \in Reqs : \A j \in ParamCalls(r) :
        LET ps == trace[r][j].params
            posts == {k \in j + 1 .. Len(trace[r]) : trace[r][k].ev = "post"}
        IN  IF "name" \in DOMAIN ps
            THEN /\ \A k \in posts :
                       trace[r][k].res = Ok(Response(StatusOk, <<ps["name"]>>))
                 /\ sent[r] # NoResponse =>
                       sent[r] = Response(StatusOk, <<ps["name"]>>)
            ELSE /\ \A k \in posts :
                       trace[r][k].res =
                           ErrHttp(Response(StatusBadRequest, EmptyBody))
                 /\ sent[r] # NoResponse =>
                       sent[r] = Response(StatusBadRequest, EmptyBody)

C29_Witness ==
    /\ \E j \in ParamCalls(1) :
          /\ trace[1][j].app = "api"
          /\ "name" \notin DOMAIN trace[1][j].params
          /\ "version" \in DOMAIN trace[1][j].params
    /\ \E k \in 1 .. Len(trace[1]) : trace[1][k].ev = "post"
    /\ sent[1] = Response(StatusBadRequest, EmptyBody)

-----------------------------------------------------------------------------
(* Static files *)

\* the components of the request's path after the prefix of the static route
PartsOf(r) == SubSeqFrom(req[r].inner.uri.segs, 2)

\* how far below the root the first k components lead: a normal component
\* one down, `..` one up, `.` nowhere
RECURSIVE Depth(_, _)
Depth(parts, k) ==
    IF k = 0 THEN 0
    ELSE Depth(parts, k - 1) +
            (CASE parts[k] = ".." -> -1 [] parts[k] = "." -> 0 [] OTHER -> 1)

\* the components never lead above the root
StaysInside(parts) == \A k \in 1 .. Len(parts) : Depth(parts, k) >= 0

\* the path lies under the root of the static route
UnderRoot(path) ==
    /\ Len(path) >= Len(StaticRoot)
    /\ \A i \in 1 .. Len(StaticRoot) : path[i] = StaticRoot[i]

\* the request of connection r was answered by the static route
StaticAnswered(r) ==
    /\ sent[r] # NoResponse
    /\ \E j \in 1 .. Len(trace[r]) :
          trace[r][j].ev = "call" /\ trace[r][j].ep.arg = "static"

\* C30: the answer of the static route is 403, or the path it resolved lies
\* under the root: a file that is sent is a file under the root; and a path
\* whose `.` and `..` components never lead above the root is not answered
\* 403.
C30_UnderRoot ==
    \A r \in Reqs : StaticAnswered(r) =>
        /\ sent[r].status \in
              {StatusOk, StatusForbidden, StatusNotFound}
        /\ sent[r].status = StatusOk =>
              /\ sent[r].body \in StaticDisk
              /\ UnderRoot(sent[r].body)
        /\ sent[r].status # StatusForbidden =>
              UnderRoot(Resolve(StaticRoot, PartsOf(r)))
        /\ StaysInside(PartsOf(r)) => sent[r].status # StatusForbidden

C30_Witness ==
    /\ StaticAnswered(1)
    /\ PartsOf(1) = <<"secret", "..", "x">>
    /\ sent[1] = Response(StatusOk, <<"examples", "resources", "x">>)

-----------------------------------------------------------------------------
(* C31: a catch-all as the only route *)

\* the lookups of request r made while the App holds nothing but one
\* catch-all route in its all-trie
OnlyCatchAll(pat) ==
    /\ apps[Root].routes.all = {[pat |-> pat, value |-> Handler(Root, "ALL", pat, "ok")]}
    /\ \A m \in Methods : apps[Root].routes.methods[m] = {}

-----------------------------------------------------------------------------
(* C32: the one route of a mount *)

\* the routes of App a that hold a mount adapter
MountEntries(a) == {e \in Entries(a) : e.value.kind = "mount"}

\* a step in which App a gets a mount adapter: it gets one route and no
\* more, in the all-trie, at the prefix followed by the reserved catch-all
OneMountRoute(a) ==
    MountEntries(a)' # MountEntries(a) =>
        \E e \in MountEntries(a)' :
            /\ apps'[a].routes.all = apps[a].routes.all \cup {e}
            /\ e \notin apps[a].routes.all
            /\ apps'[a].routes.methods = apps[a].routes.methods
            /\ Len(e.pat) >= 2 /\ e.pat[Len(e.pat)] = Catch(REST)
            /\ e.pat = MountPath(SubSeq(e.pat, 1, Len(e.pat) - 1))

\* the lookups of the root App on a path a mount's route matches
MountLookups == {l \in Lookups : LkResult(l).app = Root /\
                                   \E e \in AllMatches(l) : e.value.kind = "mount"}

\* C32: mount at prefix P registers exactly one route, P followed by the
\* reserved catch-all, in the all-trie; a lookup on a path that route matches
\* returns the parent's route of the request's method when one matches the
\* path, and the mount adapter under every method otherwise.
C32_MountRoute ==
    /\ [][\A a \in AppIds : OneMountRoute(a)]_vars
    /\ [](\A l \in MountLookups :
            IF OwnMatches(l) # {}
            THEN \E e \in OwnMatches(l) : IsTarget(l, e)
            ELSE \E e \in AllMatches(l) :
                    e.value.kind = "mount" /\ LkResult(l).ep = e.value)

C32_Witness ==
    /\ \E l \in MountLookups :
          /\ LkMethod(l) = "GET"
          /\ LkResult(l).ep = Handler(Root, "GET", ApiPrefix \o UserPattern, "ok")
    /\ MountEntries(Root) =
          {[pat |-> MountPath(ApiPrefix), value |-> MountedApp(Root, MountPath(ApiPrefix), "api")]}

-----------------------------------------------------------------------------
(* C33: 404 and 405 of a mounted App *)

\* the crossings of request r at which the inner lookup found no route
SyntheticCrossings(r) ==
    {j \in Crossings(r) : trace[r][j].ep \in {not_found, method_not_allowed}}

\* the calls of an endpoint in the chain of App a
CallsAt(r, a) ==
    {k \in 1 .. Len(trace[r]) : trace[r][k].ev = "call" /\ trace[r][k].app = a}

\* C33: when the path past the mount prefix matches no route of the child,
\* the child's lookup gives the 404 endpoint, and when it matches only under
\* other methods, the 405 endpoint; the request made for the child then has
\* the outer parameters and no other, and the child's filters run around
\* that endpoint as around any other: unless one of them returns without
\* calling next, the request meets all of them, then the endpoint with the
\* outer parameters, then all of them again on the way out.
C33_ChildSynthetic ==
    \A r \in Reqs : \A j \in Crossings(r) :
        LET l == <<r, j>>
            c == trace[r][j].app
        IN  /\ (OwnMatches(l) = {} /\ AllMatches(l) = {}) =>
                  trace[r][j].ep = IF OtherMatches(l) = {} THEN not_found
                                   ELSE method_not_allowed
            /\ j \in SyntheticCrossings(r) =>
                  /\ OwnMatches(l) = {} /\ AllMatches(l) = {}
                  /\ ChildParams(r, j) = NoParams
                  /\ MergedParams(r, j) = OuterParams(r, j)
                  /\ \A k \in CallsAt(r, c) :
                        /\ trace[r][k].ep = trace[r][j].ep
                        /\ trace[r][k].params = OuterParams(r, j)
                        /\ \A i \in 1 .. Len(apps[c].filters) : Entered(r, c, i) = 1
                  /\ (Returned(r) /\ ShortAt(r, c) = {}) =>
                        ChainOf(r, c) = InOrder(apps[c].filters)

C33_Witness ==
    /\ sent[1] = Response(StatusMethodNotAllowed, EmptyBody)
    /\ \E j \in SyntheticCrossings(1) :
          /\ trace[1][j].ep = method_not_allowed
          /\ trace[1][j].app = "api"
          /\ apps["api"].filters = <<"AuthCheck">>
          /\ ChainOf(1, "api") = InOrder(<<"AuthCheck">>)
          /\ DOMAIN OuterParams(1, j) = {"version", REST}

-----------------------------------------------------------------------------
(* C34: a filter of a mounted App that does not call next *)

\* the Apps whose mount adapter request r has called, outermost first
CrossedApps(r) ==
    {a \in AppIds : \E k \in CallsAt(r, a) : trace[r][k].ep.kind = "mount"}

\* the results the filters of App a returned for request r
PostResults(r, a) ==
    {trace[r][k].res : k \in {i \in 1 .. Len(trace[r]) :
                                 trace[r][i].app = a /\ trace[r][i].ev = "post"}}

\* C34: when a filter of a mounted App returns without calling next, the
\* endpoint the App's lookup resolved is not called, and once the chain has
\* returned every filter of every App further out, having been entered, has
\* been left again in reverse order with the very result that filter
\* returned, which is the response sent.
C34_ChildShortCircuit ==
    \A r \in Reqs : \A c \in AppIds \ {Root} : \A s \in ShortAt(r, c) :
        /\ CallsAt(r, c) = {}
        /\ Returned(r) =>
              /\ \A a \in CrossedApps(r) :
                    /\ ChainOf(r, a) = InOrder(apps[a].filters)
                    /\ apps[a].filters # <<>> => PostResults(r, a) = {trace[r][s].res}
              /\ ret[r] # NoResult => ret[r] = trace[r][s].res
              /\ sent[r] # NoResponse => sent[r] = trace[r][s].res.resp

C34_Witness ==
    /\ ShortAt(1, "inner") # {}
    /\ trace[1][Len(trace[1])].ev = "post"
    /\ trace[1][Len(trace[1])].app = Root
    /\ apps[Root].filters = <<"Log">> /\ apps["api"].filters = <<"A", "B">>
    /\ CrossedApps(1) = {Root, "api"}
    /\ sent[1] = Response(StatusUnauthorized, EmptyBody)

-----------------------------------------------------------------------------
(* C35: the reserved parameter at the mount adapter *)

\* the calls of a mount adapter made for request r
AdapterCalls(r) ==
    {k \in 1 .. Len(trace[r]) :
        trace[r][k].ev = "call" /\ trace[r][k].ep.kind = "mount"}

\* C35: every request handed to a mount adapter, at any depth of mounting,
\* carries the reserved rest parameter, so that the adapter's expect on it
\* never panics.
C35_RestPresent ==
    \A r \in Reqs :
        /\ ret[r] # Panic
        /\ \A k \in AdapterCalls(r) : REST \in DOMAIN trace[r][k].params
        /\ (stack[r] # <<>> /\ Top(r).kind = "next"
                /\ Top(r).next.ep.kind = "mount") => REST \in DOMAIN req[r].params

C35_Witness ==
    \E j, k \in AdapterCalls(1) :
        /\ trace[1][j].app = Root /\ trace[1][j].ep.arg = "api"
        /\ trace[1][j].params[REST] = Path(<<"v", "b", "item", "c">>)
        /\ trace[1][k].app = "api" /\ trace[1][k].ep.arg = "inner"
        /\ trace[1][k].params[REST] = Path(<<"item", "c">>)

-----------------------------------------------------------------------------
(* C36: what the transport gets *)

\* C36: whatever error a filter or an endpoint returns, Http or Internal,
\* the dispatch closure turns it into a response before map_err: the
\* transport is never given an Err, Error::into_std is never called on an
\* Http error (it would panic), and a request whose chain has returned gets a
\* response.
C36_AlwaysOk ==
    \A r \in Reqs :
        /\ ret[r] \notin {Panic, StdError}
        /\ (Returned(r) /\ ret[r] = NoResult) => sent[r] # NoResponse

C36_Witness ==
    /\ \E j \in RaisedAt(1) :
          /\ trace[1][j].ev = "short" /\ trace[1][j].ep.arg = "Deny"
          /\ Raised(1, j).kind = "Http"
          /\ sent[1] = Raised(1, j).resp
    /\ Returned(1) /\ ret[1] = NoResult

-----------------------------------------------------------------------------
(* The session store *)

\* the session of the request on connection r
SessionOf(r) == req[r].context.session

\* has a handler called Session::set for the request on connection r; the
\* handlers run below the SessionFilter, after it has loaded the session
SetCalled(r) ==
    \E j \in 1 .. Len(trace[r]) :
        /\ trace[r][j].ev = "call"
        /\ trace[r][j].ep.arg \in {"set", "set_err", "set_internal"}

\* the step in which SessionFilter::apply returns for connection r
SessionLeft(r) == TopFilter(r) = "Session" /\ stack'[r] = Pop(r)

\* what the chain below the SessionFilter returned for connection r
BelowSession(r) ==
    {trace[r][j].res : j \in {i \in 1 .. Len(trace[r]) :
        trace[r][i].ev = "post" /\ trace[r][i].ep.arg = "Session"}}

HasCookie(resp) == "set_cookie" \in DOMAIN resp

\* C37: SessionFilter::apply writes to the store and puts the session cookie
\* on the response exactly when a handler has called Session::set for the
\* request and the chain below the filter returned Ok; otherwise it leaves
\* the store as it is and returns what the chain returned, without a
\* Set-Cookie header; no other step changes the store.
C37_SaveIffModified ==
    /\ [][\A r \in Reqs :
            /\ SessionLeft(r) =>
                  IF SetCalled(r) /\ ret[r].kind = "Ok"
                  THEN /\ sid[r] \in DOMAIN store'
                       /\ store'[sid[r]] # <<>>
                       /\ ret'[r].kind = "Ok"
                       /\ HasCookie(ret'[r].resp)
                       /\ ret'[r].resp.set_cookie = sid[r]
                       /\ ret'[r].resp.status = ret[r].resp.status
                  ELSE /\ store' = store
                       /\ ret'[r] = ret[r]
                       /\ ~HasCookie(ret'[r].resp)
            /\ store' # store =>
                  \E q \in Reqs : SessionLeft(q) /\ SetCalled(q) /\ ret[q].kind = "Ok"
         ]_vars
    /\ [](\A r \in Reqs :
            Responded(r) =>
                (HasCookie(sent[r]) <=>
                    (SetCalled(r) /\ \E res \in BelowSession(r) : res.kind = "Ok")))

C37_Witness ==
    /\ req[1].inner.cookie = "none"
    /\ SetCalled(1)
    /\ HasCookie(sent[1]) /\ sent[1].set_cookie \in Uuids
    /\ sent[1].set_cookie \in DOMAIN store
    /\ Responded(2) /\ ~SetCalled(2) /\ ~HasCookie(sent[2])
    /\ req[2].inner.cookie = "sid" /\ CookieSid \notin DOMAIN store

\* C38: when the chain below the SessionFilter returns an error, Http or
\* Internal, the filter returns that error as it is, does not ask for the
\* store, and the store stays as it was, whatever the handler did to the
\* session.
C38_ErrorNotSaved ==
    /\ [][\A r \in Reqs :
            (SessionLeft(r) /\ ret[r].kind \in {"Http", "Internal"}) =>
                /\ store' = store
                /\ ret'[r] = ret[r]
                /\ lock' = lock
         ]_vars
    /\ [](\A r \in Reqs :
            (TopFilter(r) = "Session" /\ ret[r].kind \in {"Http", "Internal"}) =>
                spc[r] \notin {"save_wait", "save_op"})

C38_Witness ==
    /\ Responded(1) /\ SetCalled(1)
    /\ BelowSession(1) = {ErrInternal}
    /\ SessionOf(1).modified
    /\ sent[1] = Response(StatusInternalServerError, EmptyBody)
    /\ req[1].inner.cookie = "sid"
    /\ store = NoData

\* the step in which the handler of connection r is called
HandlerCalled(r) ==
    /\ Len(trace'[r]) = Len(trace[r]) + 1
    /\ trace'[r][Len(trace'[r])].ev = "call"
    /\ trace'[r][Len(trace'[r])].ep.kind = "handler"

\* data with key set to value
Overlaid(data, key, value) ==
    [k \in (DOMAIN data) \cup {key} |-> IF k = key THEN value ELSE data[k]]

\* C39: the session map of a request is what the store held for its id when
\* the filter loaded it (nothing for a request without the cookie), overlaid
\* with the request's own sets; a save replaces the text stored under the
\* request's id with the serialization of that whole map and touches no
\* other id, whatever the store held before, so that of two overlapping
\* requests with one id the one that saves last decides what is stored.
C39_WholeMap ==
    [][\A r \in Reqs :
          /\ (spc[r] = "load_op" /\ spc'[r] = "") =>
                SessionOf(r)'.data = from_str(store_get(store, sid[r]))
          /\ HandlerCalled(r) =>
                LET ep == trace'[r][Len(trace'[r])].ep
                IN  SessionOf(r)'.data =
                        IF ep.arg \in {"set", "set_err", "set_internal"}
                        THEN Overlaid(SessionOf(r).data, ep.id[3][1].v, ep.id[2])
                        ELSE SessionOf(r).data
          /\ (spc[r] # "load_op" /\ ~HandlerCalled(r) /\ req'[r].inner = req[r].inner
                /\ trace[r] # <<>> /\ trace'[r] # <<>>) =>
                SessionOf(r)' = SessionOf(r)
          /\ (spc[r] = "save_op" /\ spc'[r] = "") =>
                /\ DOMAIN store' = (DOMAIN store) \cup {sid[r]}
                /\ from_str(store'[sid[r]]) = SessionOf(r).data
                /\ Len(store'[sid[r]]) = Cardinality(DOMAIN SessionOf(r).data)
                /\ \A k \in DOMAIN store : k # sid[r] => store'[k] = store[k]
      ]_vars

C39_Witness ==
    /\ req[1].inner.cookie = "sid" /\ req[2].inner.cookie = "sid"
    /\ HasCookie(sent[1]) /\ HasCookie(sent[2])
    /\ req[1].inner.uri = Path(<<"a">>) /\ req[2].inner.uri = Path(<<"b">>)
    /\ SessionOf(1).data = [k \in {"a"} |-> "GET"]
    /\ store = [k \in {CookieSid} |-> <<<<"b", "GET">>>>]

-----------------------------------------------------------------------------
(* C40: the file a static route serves *)

\* the calls of a static route made for request r
StaticCalls(r) ==
    {j \in 1 .. Len(trace[r]) :
        trace[r][j].ev = "call" /\ trace[r][j].ep.arg = "static"}

\* the wildcard portion of the URL for the call at j: what the catch-all of
\* the static route captured
WildcardOf(r, j) ==
    LET pat == trace[r][j].ep.id[3]
    IN  trace[r][j].params[pat[Len(pat)].v]

\* the root joined with the wildcard portion
JoinedWithRoot(r, j) == Resolve(StaticRoot, WildcardOf(r, j).segs)

\* C40 as stated: a request routed to a static route, on the root App or on a
\* mounted one, is answered with the file at the root joined with the
\* wildcard portion of the URL, when that is a file under the root.
C40_Claimed ==
    \A r \in Reqs : \A j \in StaticCalls(r) :
        (Responded(r) /\ JoinedWithRoot(r, j) \in StaticDisk
            /\ UnderRoot(JoinedWithRoot(r, j))) =>
                sent[r] = Response(StatusOk, JoinedWithRoot(r, j))

====
